---------------------------- MODULE Spec2Model ----------------------------
(***************************************************************************)
(* A model of rdbtools/parser.py: the streaming RDB parser RdbParser and   *)
(* the sequence of callback invocations it makes while reading a dump.     *)
(*                                                                         *)
(* A dump file is a sequence of bytes (0..255); a file cursor is the       *)
(* 1-based index of the next byte to read.  Every reader is an operator    *)
(* that returns a record with the decoded value, the raw bytes consumed,   *)
(* the new cursor, and err (the empty string, or the Python exception that *)
(* the reader raises).                                                     *)
(***************************************************************************)
EXTENDS Integers, Sequences, FiniteSets, TLC

(***************************************************************************)
(* Program constants (parser.py:12-36).                                    *)
(***************************************************************************)
REDIS_RDB_6BITLEN == 0
REDIS_RDB_14BITLEN == 1
REDIS_RDB_32BITLEN == 2
REDIS_RDB_ENCVAL == 3

REDIS_RDB_OPCODE_EXPIRETIME_MS == 252
REDIS_RDB_OPCODE_EXPIRETIME == 253
REDIS_RDB_OPCODE_SELECTDB == 254
REDIS_RDB_OPCODE_EOF == 255

REDIS_RDB_TYPE_STRING == 0
REDIS_RDB_TYPE_LIST == 1
REDIS_RDB_TYPE_SET == 2
REDIS_RDB_TYPE_ZSET == 3
REDIS_RDB_TYPE_HASH == 4
REDIS_RDB_TYPE_HASH_ZIPMAP == 9
REDIS_RDB_TYPE_LIST_ZIPLIST == 10
REDIS_RDB_TYPE_SET_INTSET == 11
REDIS_RDB_TYPE_ZSET_ZIPLIST == 12
REDIS_RDB_TYPE_HASH_ZIPLIST == 13

REDIS_RDB_ENC_INT8 == 0
REDIS_RDB_ENC_INT16 == 1
REDIS_RDB_ENC_INT32 == 2
REDIS_RDB_ENC_LZF == 3

\* DATA_TYPE_MAPPING; a type outside its keys is a KeyError ("" here).
DATA_TYPE_MAPPING(t) ==
    CASE t = 0 -> "string"
      [] t = 1 -> "list"
      [] t = 2 -> "set"
      [] t = 3 -> "sortedset"
      [] t = 4 -> "hash"
      [] t = 9 -> "hash"
      [] t = 10 -> "list"
      [] t = 11 -> "set"
      [] t = 12 -> "sortedset"
      [] t = 13 -> "hash"
      [] OTHER -> ""

(***************************************************************************)
(* Python values that reach the callbacks: None, a byte string, an int, or *)
(* a float (kept as the text it was parsed from).  One record shape for    *)
(* all of them.                                                            *)
(***************************************************************************)
VNone == [t |-> "none", b |-> <<>>, n |-> 0]
VStr(bytes) == [t |-> "str", b |-> bytes, n |-> 0]
VInt(num) == [t |-> "int", b |-> <<>>, n |-> num]
VFlt(text) == [t |-> "float", b |-> text, n |-> 0]

Min(a, b) == IF a < b THEN a ELSE b

\* With(v, LAMBDA x : e) is e with x standing for the value v.
With(v, Body(_)) == Body(v)

RECURSIVE Cat(_)
\* ''.join(bts): the concatenation of a sequence of byte strings.
Cat(ss) == IF ss = <<>> THEN <<>> ELSE Head(ss) \o Cat(Tail(ss))

RECURSIVE LE(_)
\* struct.unpack of an unsigned little-endian integer.
LE(bytes) == IF bytes = <<>> THEN 0 ELSE Head(bytes) + 256 * LE(Tail(bytes))

RECURSIVE LEcompl(_)
LEcompl(bytes) ==
    IF bytes = <<>> THEN 0 ELSE (255 - Head(bytes)) + 256 * LEcompl(Tail(bytes))

\* struct.unpack of a signed (two's complement) little-endian integer.
SLE(bytes) ==
    IF bytes[Len(bytes)] >= 128 THEN 0 - (LEcompl(bytes) + 1) ELSE LE(bytes)

RECURSIVE BE(_)
\* struct.unpack('>I', ...): unsigned big-endian.
BE(bytes) ==
    IF bytes = <<>> THEN 0
    ELSE bytes[Len(bytes)] + 256 * BE(SubSeq(bytes, 1, Len(bytes) - 1))

RECURSIVE DigitsOf(_)
DigitsOf(num) ==
    IF num < 10 THEN <<48 + num>> ELSE DigitsOf(num \div 10) \o <<48 + (num % 10)>>

\* str(n) for a Python int: decimal digits, '-' (45) first when negative.
StrOfInt(num) == IF num < 0 THEN <<45>> \o DigitsOf(0 - num) ELSE DigitsOf(num)

\* str(v), as matches_filter applies it to a key and StringIO to its
\* argument: str(None) is the text "None".
PyStr(v) ==
    CASE v.t = "int" -> StrOfInt(v.n)
      [] v.t = "none" -> <<78, 111, 110, 101>>
      [] OTHER -> v.b

\* Python truthiness of a key: None, '' and 0 are false.
Truthy(v) ==
    CASE v.t = "none" -> FALSE
      [] v.t = "int" -> v.n # 0
      [] OTHER -> v.b # <<>>

(***************************************************************************)
(* Byte reader primitives (parser.py:817-881).                             *)
(***************************************************************************)
\* file.read(n): up to n bytes; short at end of file, never an error.
read(f, pos, n) ==
    [data |-> SubSeq(f, pos, Min(pos + n - 1, Len(f))),
     pos |-> Min(pos + n, Len(f) + 1)]

Fail(e, pos) == [err |-> e, val |-> 0, raw |-> <<>>, pos |-> pos]

\* struct.unpack on a read of width w: struct.error on a short read.
ReadFixed(f, pos, w, signed) ==
    LET r == read(f, pos, w) IN
    IF Len(r.data) # w THEN Fail("struct.error", r.pos)
    ELSE [err |-> "", val |-> IF signed THEN SLE(r.data) ELSE LE(r.data),
          raw |-> r.data, pos |-> r.pos]

read_signed_char(f, pos) == ReadFixed(f, pos, 1, TRUE)
read_unsigned_char(f, pos) == ReadFixed(f, pos, 1, FALSE)
read_signed_short(f, pos) == ReadFixed(f, pos, 2, TRUE)
read_unsigned_short(f, pos) == ReadFixed(f, pos, 2, FALSE)
read_signed_int(f, pos) == ReadFixed(f, pos, 4, TRUE)
read_unsigned_int(f, pos) == ReadFixed(f, pos, 4, FALSE)
read_signed_long(f, pos) == ReadFixed(f, pos, 8, TRUE)
read_unsigned_long(f, pos) == ReadFixed(f, pos, 8, FALSE)

read_big_endian_unsigned_int(f, pos) ==
    LET r == read(f, pos, 4) IN
    IF Len(r.data) # 4 THEN Fail("struct.error", r.pos)
    ELSE [err |-> "", val |-> BE(r.data), raw |-> r.data, pos |-> r.pos]

\* s = '0' + data; unpack('i', s) >> 8: the three bytes, sign-extended.
read_24bit_signed_number(f, pos) ==
    LET r == read(f, pos, 3) IN
    IF Len(r.data) # 3 THEN Fail("struct.error", r.pos)
    ELSE [err |-> "", val |-> SLE(r.data), raw |-> r.data, pos |-> r.pos]

\* skip(f, free): if free: f.read(free).
skip(f, pos, free) == IF free # 0 THEN read(f, pos, free).pos ELSE pos

\* ntohl without the swap: the number read_unsigned_int returns.
ntohl_without_swap(f, pos) == read_unsigned_int(f, pos)

\* ntohl: the four bytes of a little-endian u32, swapped end for end.
ntohl(f, pos) ==
    With(read_unsigned_int(f, pos), LAMBDA r :
    With(r.val, LAMBDA val :
        IF r.err # "" THEN r
        ELSE [r EXCEPT !.val = (val % 256) * 16777216
                               + (val \div 16777216)
                               + ((val \div 256) % 256) * 65536
                               + ((val \div 65536) % 256) * 256]))

\* to_datetime: integer division by 10^6 (Python 2 "/" on ints).
to_datetime(usecs_since_epoch) == usecs_since_epoch \div 1000000

(***************************************************************************)
(* Length / encoding prefix (parser.py:329-352).                           *)
(***************************************************************************)
LenFail(e, pos) ==
    [err |-> e, length |-> 0, is_encoded |-> FALSE, raw |-> <<>>, pos |-> pos]

read_length_with_encoding(f, pos) ==
    With(read_unsigned_char(f, pos), LAMBDA d :
    With(d.val, LAMBDA data :
    With(data \div 64, LAMBDA enc_type :
       IF d.err # "" THEN LenFail(d.err, d.pos)
       ELSE IF enc_type = REDIS_RDB_ENCVAL THEN
            [err |-> "", length |-> data % 64, is_encoded |-> TRUE,
             raw |-> d.raw, pos |-> d.pos]
       ELSE IF enc_type = REDIS_RDB_6BITLEN THEN
            [err |-> "", length |-> data % 64, is_encoded |-> FALSE,
             raw |-> d.raw, pos |-> d.pos]
       ELSE IF enc_type = REDIS_RDB_14BITLEN THEN
            With(read_unsigned_char(f, d.pos), LAMBDA d1 :
            IF d1.err # "" THEN LenFail(d1.err, d1.pos)
            ELSE [err |-> "", length |-> (data % 64) * 256 + d1.val,
                  is_encoded |-> FALSE, raw |-> d.raw \o d1.raw, pos |-> d1.pos])
       ELSE With(ntohl(f, d.pos), LAMBDA n :
            IF n.err # "" THEN LenFail(n.err, n.pos)
            ELSE [err |-> "", length |-> n.val, is_encoded |-> FALSE,
                  raw |-> d.raw \o n.raw, pos |-> n.pos]))))

\* read_length: the length and the joined raw bytes; the flag is dropped.
read_length(f, pos) ==
    With(read_length_with_encoding(f, pos), LAMBDA tup :
    [err |-> tup.err, val |-> tup.length, raw |-> tup.raw, pos |-> tup.pos])

(***************************************************************************)
(* LZF decompression (parser.py:783-815).  Indices of the code are 0-based *)
(* and those of the sequences here 1-based.                                *)
(***************************************************************************)
\* The copy as one block: the bytes the output holds from ref on when the
\* copy starts, none of the bytes the copy itself appends.
lzf_copy_block(out_stream, ref, count) ==
    IF ref < 0 \/ ref >= Len(out_stream)
    THEN [err |-> "IndexError", out |-> out_stream]
    ELSE [err |-> "",
          out |-> out_stream \o
                  SubSeq(out_stream, ref + 1, Min(ref + count, Len(out_stream)))]

RECURSIVE lzf_copy(_, _, _)
\* for x in xrange(0, length + 2): out_stream.append(out_stream[ref]).
\* A negative ref indexes from the end of the bytearray, as Python does;
\* an index outside [-len, len) is an IndexError.
lzf_copy(out_stream, ref, count) ==
    IF count = 0 THEN [err |-> "", out |-> out_stream]
    ELSE With(IF ref >= 0 THEN ref ELSE Len(out_stream) + ref, LAMBDA idx :
         IF idx < 0 \/ idx >= Len(out_stream)
         THEN [err |-> "IndexError", out |-> out_stream]
         ELSE lzf_copy(Append(out_stream, out_stream[idx + 1]), ref + 1,
                       count - 1))

RECURSIVE lzf_loop(_, _, _)
\* The while loop of lzf_decompress; in_index is the 0-based input index.
lzf_loop(in_stream, in_index, out_stream) ==
    IF ~(in_index < Len(in_stream)) THEN [err |-> "", out |-> out_stream]
    ELSE
      With(in_stream[in_index + 1], LAMBDA ctrl :
      With(in_index + 1, LAMBDA i1 :
      IF ctrl < 32 THEN
          IF i1 + ctrl >= Len(in_stream)
          THEN [err |-> "IndexError", out |-> out_stream]
          ELSE lzf_loop(in_stream, i1 + ctrl + 1,
                        out_stream \o SubSeq(in_stream, i1 + 1, i1 + ctrl + 1))
      ELSE
          \* length = ctrl >> 5, and one more input byte when it is 7
          With(IF ctrl \div 32 = 7 THEN i1 + 1 ELSE i1, LAMBDA i2 :
          IF i2 >= Len(in_stream) THEN [err |-> "IndexError", out |-> out_stream]
          ELSE
            With(IF ctrl \div 32 = 7 THEN 7 + in_stream[i1 + 1] ELSE ctrl \div 32,
                 LAMBDA length :
            With(Len(out_stream) - ((ctrl % 32) * 256) - in_stream[i2 + 1] - 1,
                 LAMBDA ref :
            With(lzf_copy(out_stream, ref, length + 2), LAMBDA c :
               IF c.err # "" THEN c
               ELSE lzf_loop(in_stream, i2 + 1, c.out)))))))

\* lzf_decompress without the comparison of lines 813-814.
lzf_decompress_unchecked(compressed, expected_length) ==
    With(lzf_loop(compressed, 0, <<>>), LAMBDA r :
    IF r.err # "" THEN [err |-> r.err, val |-> VNone]
    ELSE [err |-> "", val |-> VStr(r.out)])

lzf_decompress(compressed, expected_length) ==
    With(lzf_loop(compressed, 0, <<>>), LAMBDA r :
    IF r.err # "" THEN [err |-> r.err, val |-> VNone]
    ELSE IF Len(r.out) # expected_length
         THEN [err |-> "Exception:lzf_decompress", val |-> VNone]
         ELSE [err |-> "", val |-> VStr(r.out)])

(***************************************************************************)
(* String decoder (parser.py:354-385).  An ignore flag is "true", "false"  *)
(* or "undef" (the attribute was never assigned: reading it is an          *)
(* AttributeError).                                                        *)
(***************************************************************************)
StrFail(e, pos) == [err |-> e, val |-> VNone, raw |-> <<>>, pos |-> pos]

\* The integer encodings: val is the number, not its decimal string.
read_string_int(tup, r) ==
    IF r.err # "" THEN StrFail(r.err, r.pos)
    ELSE [err |-> "", val |-> VInt(r.val), raw |-> tup.raw \o r.raw, pos |-> r.pos]

\* The LZF branch (parser.py:370-381); dec is lzf_decompress(orig_val, l).
read_string_lzf(f, tup, is_key, ignore_real_value) ==
    With(read_length(f, tup.pos), LAMBDA clen :
    IF clen.err # "" THEN StrFail(clen.err, clen.pos)
    ELSE
    With(read_length(f, clen.pos), LAMBDA l :
    IF l.err # "" THEN StrFail(l.err, l.pos)
    ELSE
    With(read(f, l.pos, clen.val), LAMBDA orig_val :
    With(Cat(<<tup.raw, clen.raw, l.raw, orig_val.data>>), LAMBDA bts :
    With(IF is_key \/ ignore_real_value = "false"
         THEN lzf_decompress(orig_val.data, l.val)
         ELSE [err |-> "", val |-> VNone], LAMBDA dec :
        IF is_key THEN
            IF dec.err # "" THEN StrFail(dec.err, orig_val.pos)
            ELSE [err |-> "", val |-> dec.val, raw |-> bts, pos |-> orig_val.pos]
        ELSE IF ignore_real_value = "undef"
             THEN StrFail("AttributeError", orig_val.pos)
        ELSE IF ignore_real_value = "false" THEN
            IF dec.err # "" THEN StrFail(dec.err, orig_val.pos)
            ELSE [err |-> "", val |-> dec.val, raw |-> bts, pos |-> orig_val.pos]
        ELSE [err |-> "", val |-> VNone, raw |-> bts, pos |-> orig_val.pos])))))

read_string(f, pos, is_key, ignore_real_value) ==
    With(read_length_with_encoding(f, pos), LAMBDA tup :
    With(tup.length, LAMBDA length :
    IF tup.err # "" THEN StrFail(tup.err, tup.pos)
    ELSE IF tup.is_encoded THEN
        IF length = REDIS_RDB_ENC_INT8
        THEN read_string_int(tup, read_signed_char(f, tup.pos))
        ELSE IF length = REDIS_RDB_ENC_INT16
        THEN read_string_int(tup, read_signed_short(f, tup.pos))
        ELSE IF length = REDIS_RDB_ENC_INT32
        THEN read_string_int(tup, read_signed_int(f, tup.pos))
        ELSE IF length = REDIS_RDB_ENC_LZF
        THEN read_string_lzf(f, tup, is_key, ignore_real_value)
        ELSE \* no branch for any other discriminant: val stays None
            [err |-> "", val |-> VNone, raw |-> tup.raw, pos |-> tup.pos]
    ELSE With(read(f, tup.pos, length), LAMBDA v :
         [err |-> "", val |-> VStr(v.data), raw |-> tup.raw \o v.data,
          pos |-> v.pos])))

(***************************************************************************)
(* Callback invocations.  An event is the call the parser makes: the       *)
(* method name, its positional arguments before info, and the info         *)
(* argument: a dict ("bag"), the value None ("none"), or no argument at    *)
(* all ("omitted").  The spans of a bag are <<name, value>> pairs in the   *)
(* order of the dict literal.                                              *)
(***************************************************************************)
Bag(encoding, sizeof_value, spans) ==
    [kind |-> "bag", encoding |-> encoding, sizeof_value |-> sizeof_value,
     spans |-> spans]
InfoNone == [kind |-> "none", encoding |-> "", sizeof_value |-> 0 - 1,
             spans |-> <<>>]
InfoOmitted == [kind |-> "omitted", encoding |-> "", sizeof_value |-> 0 - 1,
                spans |-> <<>>]

Event(name, args, info) == [ev |-> name, args |-> args, info |-> info]

\* The result of decoding (part of) an object: the events delivered, the
\* file cursor reached, and the error raised, if any.
ObjRes(e, pos, evs) == [err |-> e, pos |-> pos, evs |-> evs]

IsDigit(ch) == ch >= 48 /\ ch <= 57

RECURSIVE DecOf(_)
DecOf(ds) ==
    IF ds = <<>> THEN 0 ELSE 10 * DecOf(SubSeq(ds, 1, Len(ds) - 1)) + (ds[Len(ds)] - 48)

\* int(value) on text made of a sign and digits; ok is FALSE for a
\* ValueError.  (Text with blanks or other characters is outside the inputs
\* of this model.)
ParseInt(text) ==
    LET signed == text # <<>> /\ text[1] \in {43, 45}
        ds == IF signed THEN Tail(text) ELSE text
        ok == ds # <<>> /\ \A i \in 1..Len(ds) : IsDigit(ds[i])
    IN [ok |-> ok,
        n |-> IF ~ok THEN 0
              ELSE IF signed /\ text[1] = 45 THEN 0 - DecOf(ds) ELSE DecOf(ds)]

\* float(score) succeeds on [sign] digits [. digits] with at least one
\* digit.  (Exponents, inf, nan and blanks are outside the inputs of this
\* model.)
IsFloatText(text) ==
    LET signed == text # <<>> /\ text[1] \in {43, 45}
        body == IF signed THEN Tail(text) ELSE text
        dots == {i \in 1..Len(body) : body[i] = 46}
    IN /\ \A i \in 1..Len(body) : IsDigit(body[i]) \/ body[i] = 46
       /\ Cardinality(dots) <= 1
       /\ \E i \in 1..Len(body) : IsDigit(body[i])

(***************************************************************************)
(* Ziplist entry (parser.py:645-675).                                      *)
(***************************************************************************)
\* value = f.read(length): the bytes of a string entry.
ziplist_entry_bytes(f, from, length) ==
    With(read(f, from, length), LAMBDA v :
    [err |-> "", val |-> VStr(v.data), raw |-> <<>>, pos |-> v.pos])

\* value = read_...(f)[0]: a number entry.
ziplist_entry_number(r) ==
    IF r.err # "" THEN StrFail(r.err, r.pos)
    ELSE [err |-> "", val |-> VInt(r.val), raw |-> <<>>, pos |-> r.pos]

\* The dispatch on entry_header, parser.py:652-675; hpos is the cursor after it.
ziplist_entry_value(f, hpos, entry_header) ==
    IF entry_header \div 64 = 0 THEN ziplist_entry_bytes(f, hpos, entry_header % 64)
    ELSE IF entry_header \div 64 = 1 THEN
        With(read_unsigned_char(f, hpos), LAMBDA b :
        IF b.err # "" THEN StrFail(b.err, b.pos)
        ELSE ziplist_entry_bytes(f, b.pos, (entry_header % 64) * 256 + b.val))
    ELSE IF entry_header \div 64 = 2 THEN
        With(read_big_endian_unsigned_int(f, hpos), LAMBDA b :
        IF b.err # "" THEN StrFail(b.err, b.pos)
        ELSE ziplist_entry_bytes(f, b.pos, b.val))
    ELSE IF entry_header \div 16 = 12
    THEN ziplist_entry_number(read_signed_short(f, hpos))
    ELSE IF entry_header \div 16 = 13
    THEN ziplist_entry_number(read_signed_int(f, hpos))
    ELSE IF entry_header \div 16 = 14
    THEN ziplist_entry_number(read_signed_long(f, hpos))
    ELSE IF entry_header = 240
    THEN ziplist_entry_number(read_24bit_signed_number(f, hpos))
    ELSE IF entry_header = 254
    THEN ziplist_entry_number(read_signed_char(f, hpos))
    ELSE IF entry_header >= 241 /\ entry_header <= 253
    THEN [err |-> "", val |-> VInt(entry_header - 241), raw |-> <<>>, pos |-> hpos]
    ELSE StrFail("Exception:read_ziplist_entry", hpos)

read_ziplist_entry(f, pos) ==
    With(read_unsigned_char(f, pos), LAMBDA p0 :
    IF p0.err # "" THEN StrFail(p0.err, p0.pos)
    ELSE
    With(IF p0.val = 254 THEN read_unsigned_int(f, p0.pos) ELSE p0, LAMBDA p1 :
    IF p1.err # "" THEN StrFail(p1.err, p1.pos)
    ELSE
    With(read_unsigned_char(f, p1.pos), LAMBDA h :
    IF h.err # "" THEN StrFail(h.err, h.pos)
    ELSE ziplist_entry_value(f, h.pos, h.val))))

(***************************************************************************)
(* Object decoders.  c is the per-key context of the parser: key (_key),   *)
(* expiry (_expiry), orig_expiry, orig_data_type and orig_key; ig holds    *)
(* the two ignore flags.                                                   *)
(***************************************************************************)
RECURSIVE read_strings(_, _, _, _, _, _, _)
\* The element loop of a linked list (rpush) or a hashtable set (sadd),
\* parser.py:412-415 and 429-432.
read_strings(f, pos, c, ig, name, count, evs) ==
    IF count = 0 THEN ObjRes("", pos, evs)
    ELSE With(read_string(f, pos, FALSE, ig.real_value), LAMBDA r :
         IF r.err # "" THEN ObjRes(r.err, r.pos, evs)
         ELSE read_strings(f, r.pos, c, ig, name, count - 1,
                  Append(evs, Event(name, <<c.key, r.val>>,
                      Bag("", 0 - 1, << <<"orig_val", VStr(r.raw)>> >>)))))

RECURSIVE read_zset_elems(_, _, _, _, _, _, _)
\* The element loop of a skiplist sorted set, parser.py:443-454.
read_zset_elems(f, pos, c, ig, orig_length, count, evs) ==
    IF count = 0 THEN ObjRes("", pos, evs)
    ELSE With(read_string(f, pos, FALSE, ig.real_value), LAMBDA r :
         IF r.err # "" THEN ObjRes(r.err, r.pos, evs)
         ELSE
         With(read_unsigned_char(f, r.pos), LAMBDA d :
         IF d.err # "" THEN ObjRes(d.err, d.pos, evs)
         ELSE
         With(read(f, d.pos, d.val), LAMBDA score :
         IF ~IsFloatText(score.data) THEN ObjRes("ValueError", score.pos, evs)
         ELSE read_zset_elems(f, score.pos, c, ig, orig_length, count - 1,
                  Append(evs, Event("zadd", <<c.key, VFlt(score.data), r.val>>,
                      Bag("", 0 - 1, << <<"orig_length", VStr(orig_length)>>,
                                       <<"orig_val", VStr(r.raw)>>,
                                       <<"orig_dbl_length", VStr(d.raw)>>,
                                       <<"orig_score", VStr(score.data)>> >>)))))))

RECURSIVE read_hash_elems(_, _, _, _, _, _)
\* The element loop of a hashtable hash, parser.py:465-471.
read_hash_elems(f, pos, c, ig, count, evs) ==
    IF count = 0 THEN ObjRes("", pos, evs)
    ELSE With(read_string(f, pos, FALSE, ig.real_value), LAMBDA field :
         IF field.err # "" THEN ObjRes(field.err, field.pos, evs)
         ELSE
         With(read_string(f, field.pos, FALSE, ig.real_value), LAMBDA value :
         IF value.err # "" THEN ObjRes(value.err, value.pos, evs)
         ELSE read_hash_elems(f, value.pos, c, ig, count - 1,
                  Append(evs, Event("hset", <<c.key, field.val, value.val>>,
                      Bag("", 0 - 1, << <<"orig_field", VStr(field.raw)>>,
                                       <<"orig_value", VStr(value.raw)>> >>))))))

\* The info dict of an arena object (intset, ziplist, zipmap).
ArenaInfo(encoding, c, raw_string, orig_raw_string) ==
    Bag(encoding, Len(raw_string),
        << <<"orig_data_type", c.orig_data_type>>,
           <<"orig_expiry", c.orig_expiry>>,
           <<"orig_key", c.orig_key>>,
           <<"orig_raw_string", VStr(orig_raw_string)>> >>)

\* One entry of an intset, read at the width the header names.
read_intset_entry(buff, bpos, encoding) ==
    IF encoding = 8 THEN read_unsigned_long(buff, bpos)
    ELSE IF encoding = 4 THEN read_unsigned_int(buff, bpos)
    ELSE IF encoding = 2 THEN read_unsigned_short(buff, bpos)
    ELSE Fail("Exception:read_intset", bpos)

RECURSIVE read_intset_entries(_, _, _, _, _, _)
\* parser.py:552-561.
read_intset_entries(buff, bpos, c, encoding, count, evs) ==
    IF count = 0 THEN [err |-> "", evs |-> evs]
    ELSE With(read_intset_entry(buff, bpos, encoding), LAMBDA e :
         IF e.err # "" THEN [err |-> e.err, evs |-> evs]
         ELSE read_intset_entries(buff, e.pos, c, encoding, count - 1,
                  Append(evs, Event("sadd", <<c.key, VInt(e.val)>>, InfoNone))))

\* The end of an arena decoder: body is what the element loop returned, pos
\* the file cursor after the arena, name the closing event.
arena_end(body, pos, c, name) ==
    IF body.err # "" THEN ObjRes(body.err, pos, body.evs)
    ELSE ObjRes("", pos, Append(body.evs, Event(name, <<c.key>>, InfoOmitted)))

\* parser.py:539-562.  The arena is read with is_key = True, so an LZF
\* payload is always decompressed.  len(raw_string) is a TypeError when the
\* payload decoded to an int or to None.
read_intset(f, pos, c) ==
    With(read_string(f, pos, TRUE, "undef"), LAMBDA s :
    IF s.err # "" THEN ObjRes(s.err, s.pos, <<>>)
    ELSE
    With(PyStr(s.val), LAMBDA buff :
    With(read_unsigned_int(buff, 1), LAMBDA encoding :
    IF encoding.err # "" THEN ObjRes(encoding.err, s.pos, <<>>)
    ELSE
    With(read_unsigned_int(buff, encoding.pos), LAMBDA num_entries :
    IF num_entries.err # "" THEN ObjRes(num_entries.err, s.pos, <<>>)
    ELSE IF s.val.t # "str" THEN ObjRes("TypeError", s.pos, <<>>)
    ELSE arena_end(
             read_intset_entries(buff, num_entries.pos, c, encoding.val,
                 num_entries.val,
                 <<Event("start_set", <<c.key, VInt(num_entries.val), c.expiry>>,
                         ArenaInfo("intset", c, buff, s.raw))>>),
             s.pos, c, "end_set")))))

\* zlbytes, tail_offset and num_entries: the ten header bytes of a ziplist.
ziplist_header(buff) ==
    With(read_unsigned_int(buff, 1), LAMBDA zlbytes :
    IF zlbytes.err # "" THEN zlbytes
    ELSE
    With(read_unsigned_int(buff, zlbytes.pos), LAMBDA tail_offset :
    IF tail_offset.err # "" THEN tail_offset
    ELSE read_unsigned_short(buff, tail_offset.pos)))

RECURSIVE read_ziplist_entries(_, _, _, _, _)
\* parser.py:578-580.
read_ziplist_entries(buff, bpos, c, count, evs) ==
    IF count = 0 THEN [err |-> "", pos |-> bpos, evs |-> evs]
    ELSE With(read_ziplist_entry(buff, bpos), LAMBDA val :
         IF val.err # "" THEN [err |-> val.err, pos |-> val.pos, evs |-> evs]
         ELSE read_ziplist_entries(buff, val.pos, c, count - 1,
                  Append(evs, Event("rpush", <<c.key, val.val>>, InfoOmitted))))

\* read_ziplist with end_list delivered before the terminator is checked.
read_ziplist_end_before_check(buff, body, pos, c) ==
    IF body.err # "" THEN ObjRes(body.err, pos, body.evs)
    ELSE With(read_unsigned_char(buff, body.pos), LAMBDA zlist_end :
         With(Append(body.evs, Event("end_list", <<c.key>>, InfoOmitted)), LAMBDA evs :
         IF zlist_end.err # "" THEN ObjRes(zlist_end.err, pos, evs)
         ELSE IF zlist_end.val # 255 THEN ObjRes("Exception:read_ziplist", pos, evs)
         ELSE ObjRes("", pos, evs)))

\* parser.py:581-584: the terminator byte, then end_list.
read_ziplist_end(buff, body, pos, c) ==
    IF body.err # "" THEN ObjRes(body.err, pos, body.evs)
    ELSE With(read_unsigned_char(buff, body.pos), LAMBDA zlist_end :
         IF zlist_end.err # "" THEN ObjRes(zlist_end.err, pos, body.evs)
         ELSE IF zlist_end.val # 255
              THEN ObjRes("Exception:read_ziplist", pos, body.evs)
         ELSE ObjRes("", pos,
                     Append(body.evs, Event("end_list", <<c.key>>, InfoOmitted))))

\* parser.py:564-584.
read_ziplist(f, pos, c) ==
    With(read_string(f, pos, TRUE, "undef"), LAMBDA s :
    IF s.err # "" THEN ObjRes(s.err, s.pos, <<>>)
    ELSE
    With(PyStr(s.val), LAMBDA buff :
    With(ziplist_header(buff), LAMBDA num_entries :
    IF num_entries.err # "" THEN ObjRes(num_entries.err, s.pos, <<>>)
    ELSE IF s.val.t # "str" THEN ObjRes("TypeError", s.pos, <<>>)
    ELSE read_ziplist_end(buff,
             read_ziplist_entries(buff, num_entries.pos, c, num_entries.val,
                 <<Event("start_list", <<c.key, VInt(num_entries.val), c.expiry>>,
                         ArenaInfo("ziplist", c, buff, s.raw))>>),
             s.pos, c))))

\* score = float(score) when the entry is a string (parser.py:606-607).
zset_score(score) == IF score.val.t = "str" THEN VFlt(score.val.b) ELSE score.val

RECURSIVE read_zset_ziplist_entries(_, _, _, _, _)
\* parser.py:603-608.
read_zset_ziplist_entries(buff, bpos, c, count, evs) ==
    IF count = 0 THEN [err |-> "", pos |-> bpos, evs |-> evs]
    ELSE With(read_ziplist_entry(buff, bpos), LAMBDA member :
         IF member.err # "" THEN [err |-> member.err, pos |-> member.pos, evs |-> evs]
         ELSE
         With(read_ziplist_entry(buff, member.pos), LAMBDA score :
         IF score.err # "" THEN [err |-> score.err, pos |-> score.pos, evs |-> evs]
         ELSE IF score.val.t = "str" /\ ~IsFloatText(score.val.b)
              THEN [err |-> "ValueError", pos |-> score.pos, evs |-> evs]
         ELSE read_zset_ziplist_entries(buff, score.pos, c, count - 1,
                  Append(evs, Event("zadd", <<c.key, zset_score(score), member.val>>,
                                    InfoOmitted)))))

\* parser.py:609-612.  Line 609 keeps the (value, raw) pair that
\* read_unsigned_char returns, and a pair is never equal to 255: once the
\* terminator byte has been read the exception of line 611 is raised,
\* whatever the byte.
read_zset_ziplist_end(buff, body, pos, c) ==
    IF body.err # "" THEN ObjRes(body.err, pos, body.evs)
    ELSE With(read_unsigned_char(buff, body.pos), LAMBDA zlist_end :
         IF zlist_end.err # "" THEN ObjRes(zlist_end.err, pos, body.evs)
         ELSE ObjRes("Exception:read_zset_from_ziplist", pos, body.evs))

\* parser.py:586-612.
read_zset_from_ziplist(f, pos, c) ==
    With(read_string(f, pos, TRUE, "undef"), LAMBDA s :
    IF s.err # "" THEN ObjRes(s.err, s.pos, <<>>)
    ELSE
    With(PyStr(s.val), LAMBDA buff :
    With(ziplist_header(buff), LAMBDA num_entries :
    IF num_entries.err # "" THEN ObjRes(num_entries.err, s.pos, <<>>)
    ELSE IF num_entries.val % 2 # 0
         THEN ObjRes("Exception:read_zset_from_ziplist", s.pos, <<>>)
    ELSE IF s.val.t # "str" THEN ObjRes("TypeError", s.pos, <<>>)
    ELSE read_zset_ziplist_end(buff,
             read_zset_ziplist_entries(buff, num_entries.pos, c,
                 num_entries.val \div 2,
                 <<Event("start_sorted_set",
                         <<c.key, VInt(num_entries.val \div 2), c.expiry>>,
                         ArenaInfo("ziplist", c, buff, s.raw))>>),
             s.pos, c))))

\* An entry of a hash ziplist that the flag says to leave unread.
NotRead(bpos) == [err |-> "", val |-> VNone, raw |-> <<>>, pos |-> bpos]

RECURSIVE read_hash_ziplist_entries(_, _, _, _, _, _)
\* parser.py:631-637.  Each flag is read before the entry it guards.
read_hash_ziplist_entries(buff, bpos, c, ig, count, evs) ==
    IF count = 0 THEN [err |-> "", pos |-> bpos, evs |-> evs]
    ELSE IF ig.real_field = "undef"
    THEN [err |-> "AttributeError", pos |-> bpos, evs |-> evs]
    ELSE
      With(IF ig.real_field = "false" THEN read_ziplist_entry(buff, bpos)
           ELSE NotRead(bpos), LAMBDA field :
      IF field.err # "" THEN [err |-> field.err, pos |-> field.pos, evs |-> evs]
      ELSE IF ig.real_value = "undef"
           THEN [err |-> "AttributeError", pos |-> field.pos, evs |-> evs]
      ELSE
      With(IF ig.real_value = "false" THEN read_ziplist_entry(buff, field.pos)
           ELSE NotRead(field.pos), LAMBDA value :
      IF value.err # "" THEN [err |-> value.err, pos |-> value.pos, evs |-> evs]
      ELSE read_hash_ziplist_entries(buff, value.pos, c, ig, count - 1,
               Append(evs, Event("hset", <<c.key, field.val, value.val>>, InfoNone)))))

\* parser.py:638-642: the terminator is read unless both flags are set.
read_hash_ziplist_end(buff, body, pos, c, ig) ==
    IF body.err # "" THEN ObjRes(body.err, pos, body.evs)
    ELSE IF ig.real_field = "undef" THEN ObjRes("AttributeError", pos, body.evs)
    ELSE IF ig.real_field = "true" /\ ig.real_value = "undef"
         THEN ObjRes("AttributeError", pos, body.evs)
    ELSE IF ig.real_field = "false" \/ ig.real_value = "false" THEN
        With(read_unsigned_char(buff, body.pos), LAMBDA zlist_end :
        IF zlist_end.err # "" THEN ObjRes(zlist_end.err, pos, body.evs)
        ELSE IF zlist_end.val # 255
             THEN ObjRes("Exception:read_hash_from_ziplist", pos, body.evs)
        ELSE ObjRes("", pos,
                    Append(body.evs, Event("end_hash", <<c.key>>, InfoOmitted))))
    ELSE ObjRes("", pos, Append(body.evs, Event("end_hash", <<c.key>>, InfoOmitted)))

\* parser.py:614-642.
read_hash_from_ziplist(f, pos, c, ig) ==
    With(read_string(f, pos, TRUE, "undef"), LAMBDA s :
    IF s.err # "" THEN ObjRes(s.err, s.pos, <<>>)
    ELSE
    With(PyStr(s.val), LAMBDA buff :
    With(ziplist_header(buff), LAMBDA num_entries :
    IF num_entries.err # "" THEN ObjRes(num_entries.err, s.pos, <<>>)
    ELSE IF num_entries.val % 2 # 0
         THEN ObjRes("Exception:read_hash_from_ziplist", s.pos, <<>>)
    ELSE IF s.val.t # "str" THEN ObjRes("TypeError", s.pos, <<>>)
    ELSE read_hash_ziplist_end(buff,
             read_hash_ziplist_entries(buff, num_entries.pos, c, ig,
                 num_entries.val \div 2,
                 <<Event("start_hash",
                         <<c.key, VInt(num_entries.val \div 2), c.expiry>>,
                         ArenaInfo("ziplist", c, buff, s.raw))>>),
             s.pos, c, ig))))

\* parser.py:708-715: val is the length, none is TRUE for the terminator.
read_zipmap_next_length(buff, bpos) ==
    With(read_unsigned_char(buff, bpos), LAMBDA num :
    IF num.err # "" THEN [err |-> num.err, val |-> 0, none |-> FALSE, pos |-> num.pos]
    ELSE IF num.val < 254
         THEN [err |-> "", val |-> num.val, none |-> FALSE, pos |-> num.pos]
    ELSE IF num.val = 254
         THEN With(read_unsigned_int(buff, num.pos), LAMBDA long :
              [err |-> long.err, val |-> long.val, none |-> FALSE, pos |-> long.pos])
    ELSE [err |-> "", val |-> 0, none |-> TRUE, pos |-> num.pos])

\* value = int(value), or the bytes when int() raises ValueError.
zipmap_value(data) ==
    With(ParseInt(data), LAMBDA num : IF num.ok THEN VInt(num.n) ELSE VStr(data))

RECURSIVE read_zipmap_entries(_, _, _, _)
\* The while True loop of read_zipmap, parser.py:689-705.
read_zipmap_entries(buff, bpos, c, evs) ==
    With(read_zipmap_next_length(buff, bpos), LAMBDA klen :
    IF klen.err # "" THEN [err |-> klen.err, evs |-> evs]
    ELSE IF klen.none THEN [err |-> "", evs |-> evs]
    ELSE
    With(read(buff, klen.pos, klen.val), LAMBDA key :
    With(read_zipmap_next_length(buff, key.pos), LAMBDA vlen :
    IF vlen.err # "" THEN [err |-> vlen.err, evs |-> evs]
    ELSE IF vlen.none THEN [err |-> "Exception:read_zip_map", evs |-> evs]
    ELSE
    With(read_unsigned_char(buff, vlen.pos), LAMBDA free :
    IF free.err # "" THEN [err |-> free.err, evs |-> evs]
    ELSE
    With(read(buff, free.pos, vlen.val), LAMBDA value :
    read_zipmap_entries(buff, skip(buff, value.pos, free.val), c,
        Append(evs, Event("hset", <<c.key, VStr(key.data), zipmap_value(value.data)>>,
                          InfoOmitted))))))))

\* bytearray(raw_string): the bytes of a str; n zero bytes for an int n >= 0.
RECURSIVE Zeros(_)
Zeros(n) == IF n = 0 THEN <<>> ELSE <<0>> \o Zeros(n - 1)

\* parser.py:677-706.  The arena is read with is_key = False.
read_zipmap(f, pos, c, ig) ==
    With(read_string(f, pos, FALSE, ig.real_value), LAMBDA s :
    IF s.err # "" THEN ObjRes(s.err, s.pos, <<>>)
    ELSE IF s.val.t = "none" THEN ObjRes("TypeError", s.pos, <<>>)
    ELSE IF s.val.t = "int" /\ s.val.n < 0 THEN ObjRes("ValueError", s.pos, <<>>)
    ELSE
    With(IF s.val.t = "int" THEN Zeros(s.val.n) ELSE s.val.b, LAMBDA buff :
    With(read_unsigned_char(buff, 1), LAMBDA num_entries :
    IF num_entries.err # "" THEN ObjRes(num_entries.err, s.pos, <<>>)
    ELSE IF s.val.t # "str" THEN ObjRes("TypeError", s.pos, <<>>)
    ELSE arena_end(
             read_zipmap_entries(buff, num_entries.pos, c,
                 <<Event("start_hash", <<c.key, VInt(num_entries.val), c.expiry>>,
                         ArenaInfo("zipmap", c, buff, s.raw))>>),
             s.pos, c, "end_hash"))))

(***************************************************************************)
(* Object dispatcher (parser.py:390-484).                                  *)
(***************************************************************************)
\* The info dict of a start event: the spans in the order of the literal.
ObjInfo(encoding, c, last) ==
    Bag(encoding, 0 - 1,
        << <<"orig_data_type", c.orig_data_type>>,
           <<"orig_expiry", c.orig_expiry>>,
           <<"orig_key", c.orig_key>>,
           last >>)

\* The closing event after an element loop that ran to its end.
object_end(body, c, name) ==
    IF body.err # "" THEN body
    ELSE ObjRes("", body.pos, Append(body.evs, Event(name, <<c.key>>, InfoOmitted)))

\* parser.py:393-402.
read_object_string(f, pos, c, ig) ==
    With(read_string(f, pos, FALSE, ig.real_value), LAMBDA r :
    IF r.err # "" THEN ObjRes(r.err, r.pos, <<>>)
    ELSE ObjRes("", r.pos,
             <<Event("set", <<c.key, r.val, c.expiry>>,
                     ObjInfo("string", c, <<"orig_val", VStr(r.raw)>>))>>))

\* parser.py:403-416.
read_object_list(f, pos, c, ig) ==
    With(read_length(f, pos), LAMBDA length :
    IF length.err # "" THEN ObjRes(length.err, length.pos, <<>>)
    ELSE object_end(
             read_strings(f, length.pos, c, ig, "rpush", length.val,
                 <<Event("start_list", <<c.key, VInt(length.val), c.expiry>>,
                         ObjInfo("linkedlist", c,
                                 <<"orig_length", VStr(length.raw)>>))>>),
             c, "end_list"))

\* parser.py:417-433.
read_object_set(f, pos, c, ig) ==
    With(read_length(f, pos), LAMBDA length :
    IF length.err # "" THEN ObjRes(length.err, length.pos, <<>>)
    ELSE object_end(
             read_strings(f, length.pos, c, ig, "sadd", length.val,
                 <<Event("start_set", <<c.key, VInt(length.val), c.expiry>>,
                         ObjInfo("hashtable", c,
                                 <<"orig_length", VStr(length.raw)>>))>>),
             c, "end_set"))

\* parser.py:434-455.
read_object_zset(f, pos, c, ig) ==
    With(read_length(f, pos), LAMBDA length :
    IF length.err # "" THEN ObjRes(length.err, length.pos, <<>>)
    ELSE object_end(
             read_zset_elems(f, length.pos, c, ig, length.raw, length.val,
                 <<Event("start_sorted_set", <<c.key, VInt(length.val), c.expiry>>,
                         ObjInfo("skiplist", c,
                                 <<"orig_length", VStr(length.raw)>>))>>),
             c, "end_sorted_set"))

\* parser.py:456-472.
read_object_hash(f, pos, c, ig) ==
    With(read_length(f, pos), LAMBDA length :
    IF length.err # "" THEN ObjRes(length.err, length.pos, <<>>)
    ELSE object_end(
             read_hash_elems(f, length.pos, c, ig, length.val,
                 <<Event("start_hash", <<c.key, VInt(length.val), c.expiry>>,
                         Bag("hashtable", 0 - 1,
                             << <<"orig_data_type", c.orig_data_type>>,
                                <<"orig_expiry", c.orig_expiry>>,
                                <<"orig_length", VStr(length.raw)>>,
                                <<"orig_key", c.orig_key>> >>))>>),
             c, "end_hash"))

read_object(f, pos, enc_type, c, ig) ==
    IF enc_type = REDIS_RDB_TYPE_STRING THEN read_object_string(f, pos, c, ig)
    ELSE IF enc_type = REDIS_RDB_TYPE_LIST THEN read_object_list(f, pos, c, ig)
    ELSE IF enc_type = REDIS_RDB_TYPE_SET THEN read_object_set(f, pos, c, ig)
    ELSE IF enc_type = REDIS_RDB_TYPE_ZSET THEN read_object_zset(f, pos, c, ig)
    ELSE IF enc_type = REDIS_RDB_TYPE_HASH THEN read_object_hash(f, pos, c, ig)
    ELSE IF enc_type = REDIS_RDB_TYPE_HASH_ZIPMAP THEN read_zipmap(f, pos, c, ig)
    ELSE IF enc_type = REDIS_RDB_TYPE_LIST_ZIPLIST THEN read_ziplist(f, pos, c)
    ELSE IF enc_type = REDIS_RDB_TYPE_SET_INTSET THEN read_intset(f, pos, c)
    ELSE IF enc_type = REDIS_RDB_TYPE_ZSET_ZIPLIST
         THEN read_zset_from_ziplist(f, pos, c)
    ELSE IF enc_type = REDIS_RDB_TYPE_HASH_ZIPLIST
         THEN read_hash_from_ziplist(f, pos, c, ig)
    ELSE ObjRes("Exception:read_object", pos, <<>>)

(***************************************************************************)
(* Skipping (parser.py:486-536).  read_length returns a (length, raw)      *)
(* pair; skip_string and skip_object use the pair where a number is        *)
(* needed, and file.read(pair) and xrange(0, pair) raise TypeError.        *)
(***************************************************************************)
\* parser.py:501-505: clen and l are pairs, and f.read(clen) raises.
skip_string_lzf(f, pos) ==
    With(read_length(f, pos), LAMBDA clen :
    IF clen.err # "" THEN [err |-> clen.err, pos |-> clen.pos]
    ELSE With(read_length(f, clen.pos), LAMBDA l :
         IF l.err # "" THEN [err |-> l.err, pos |-> l.pos]
         ELSE [err |-> "TypeError", pos |-> l.pos]))

skip_string(f, pos) ==
    With(read_length_with_encoding(f, pos), LAMBDA tup :
    IF tup.err # "" THEN [err |-> tup.err, pos |-> tup.pos]
    ELSE IF tup.is_encoded THEN
        IF tup.length = REDIS_RDB_ENC_INT8
        THEN [err |-> "", pos |-> skip(f, tup.pos, 1)]
        ELSE IF tup.length = REDIS_RDB_ENC_INT16
        THEN [err |-> "", pos |-> skip(f, tup.pos, 2)]
        ELSE IF tup.length = REDIS_RDB_ENC_INT32
        THEN [err |-> "", pos |-> skip(f, tup.pos, 4)]
        ELSE IF tup.length = REDIS_RDB_ENC_LZF THEN skip_string_lzf(f, tup.pos)
        ELSE [err |-> "", pos |-> skip(f, tup.pos, 0)]
    ELSE [err |-> "", pos |-> skip(f, tup.pos, tup.length)])

RECURSIVE skip_strings_loop(_, _, _)
\* for x in xrange(0, skip_strings): self.skip_string(f)
skip_strings_loop(f, pos, skip_strings) ==
    IF skip_strings = 0 THEN [err |-> "", pos |-> pos]
    ELSE With(skip_string(f, pos), LAMBDA r :
         IF r.err # "" THEN r ELSE skip_strings_loop(f, r.pos, skip_strings - 1))

skip_object(f, pos, enc_type) ==
    IF enc_type \in {REDIS_RDB_TYPE_STRING, REDIS_RDB_TYPE_HASH_ZIPMAP,
                     REDIS_RDB_TYPE_LIST_ZIPLIST, REDIS_RDB_TYPE_SET_INTSET,
                     REDIS_RDB_TYPE_ZSET_ZIPLIST, REDIS_RDB_TYPE_HASH_ZIPLIST}
    THEN skip_strings_loop(f, pos, 1)
    ELSE IF enc_type \in {REDIS_RDB_TYPE_LIST, REDIS_RDB_TYPE_SET,
                          REDIS_RDB_TYPE_ZSET, REDIS_RDB_TYPE_HASH}
    THEN With(read_length(f, pos), LAMBDA skip_strings :
         IF skip_strings.err # ""
         THEN [err |-> skip_strings.err, pos |-> skip_strings.pos]
         ELSE [err |-> "TypeError", pos |-> skip_strings.pos])
    ELSE [err |-> "Exception:read_object", pos |-> pos]

skip_key_and_object(f, pos, data_type) ==
    With(skip_string(f, pos), LAMBDA k :
    IF k.err # "" THEN k ELSE skip_object(f, k.pos, data_type))

(***************************************************************************)
(* Filters and ignore flags (parser.py:726-779).                           *)
(*                                                                         *)
(* A constructor argument is None (none = TRUE) or a dict with up to three *)
(* keys.  An axis value is a record with t = "none", "int" (n), "list"     *)
(* (items, a set), or "str" (s, the bytes of a keys pattern, or name, a    *)
(* type name).  A keys pattern is a regular expression without             *)
(* metacharacters, so that re.match succeeds exactly on the strings that   *)
(* start with it; ".*" is the empty pattern.                               *)
(***************************************************************************)
AxNone == [t |-> "none", n |-> 0, items |-> {}, s |-> <<>>, name |-> ""]
AxInt(num) == [t |-> "int", n |-> num, items |-> {}, s |-> <<>>, name |-> ""]
AxList(items) == [t |-> "list", n |-> 0, items |-> items, s |-> <<>>, name |-> ""]
AxStr(text) == [t |-> "str", n |-> 0, items |-> {}, s |-> text, name |-> ""]
AxName(name) == [t |-> "str", n |-> 0, items |-> {}, s |-> <<>>, name |-> name]

AllTypes == {"set", "hash", "sortedset", "string", "list"}

\* _filters: dbs is None (dbs_none) or a collection of numbers; keys is the
\* compiled pattern; types is a collection of names.
init_filter(filters) ==
    LET has(k) == ~filters.none /\ k \in filters.has
        dbs == filters.dbs
        keys == filters.keys
        types == filters.types
        res(e) ==
            [err |-> e,
             dbs_none |-> ~has("dbs"),
             dbs |-> IF ~has("dbs") THEN {}
                     ELSE IF dbs.t = "int" THEN {dbs.n} ELSE dbs.items,
             keys |-> IF has("keys") /\ keys.t = "str" THEN keys.s ELSE <<>>,
             types |-> IF ~has("types") THEN AllTypes
                       ELSE IF types.t = "str" THEN {types.name} ELSE types.items]
    IN
    IF has("dbs") /\ dbs.t \notin {"int", "list"} THEN res("Exception:init_filter")
    ELSE IF has("types") /\ types.t \notin {"str", "list"}
         THEN res("Exception:init_filter")
    ELSE res("")

\* The two flags after init_ignore; "undef" when the attribute is not set.
init_ignore(ignore) ==
    IF ignore.none \/ ignore.items = {}
    THEN [real_value |-> "undef", real_field |-> "undef"]
    ELSE [real_value |-> IF "real_value" \in ignore.items THEN "true" ELSE "false",
          real_field |-> IF "real_field" \in ignore.items THEN "true" ELSE "true"]

IsPrefixOf(p, text) == Len(p) <= Len(text) /\ SubSeq(text, 1, Len(p)) = p

get_logical_type(data_type) == DATA_TYPE_MAPPING(data_type)

\* matches_filter(db_number, key, data_type); has_type is FALSE when the
\* data_type argument is left at None.  err is "KeyError" when data_type is
\* no key of DATA_TYPE_MAPPING.
matches_filter(FL, db_number, key, has_type, data_type) ==
    IF ~FL.dbs_none /\ FL.dbs # {} /\ db_number \notin FL.dbs
    THEN [err |-> "", ok |-> FALSE]
    ELSE IF Truthy(key) /\ ~IsPrefixOf(FL.keys, PyStr(key))
    THEN [err |-> "", ok |-> FALSE]
    ELSE IF has_type /\ get_logical_type(data_type) = ""
    THEN [err |-> "KeyError", ok |-> FALSE]
    ELSE IF has_type /\ get_logical_type(data_type) \notin FL.types
    THEN [err |-> "", ok |-> FALSE]
    ELSE [err |-> "", ok |-> TRUE]

(***************************************************************************)
(* The driver, RdbParser.parse (parser.py:273-327).  A record l holds the  *)
(* state of one parse: the position in the code (pc), the exception that   *)
(* ended it (err), the file cursor, the locals data_type, db_number and    *)
(* is_first_database, the per-key attributes of the parser (cur), and the  *)
(* calls delivered to the callback so far (events).  Each operator below   *)
(* is one stretch of the loop body: F is the file, FL the compiled         *)
(* filters and IG the ignore flags.                                        *)
(***************************************************************************)
MAGIC == <<82, 69, 68, 73, 83>>

Cur0 == [key |-> VNone, orig_key |-> VNone, expiry |-> VNone,
         orig_expiry |-> VNone, orig_data_type |-> VNone]

L0 == [pc |-> "ready", err |-> "", pos |-> 1, data_type |-> 0, db_number |-> 0,
       is_first_database |-> TRUE, cur |-> Cur0, events |-> <<>>]

Failed(l, e) == [l EXCEPT !.pc = "failed", !.err = e]

\* verify_magic_string: any other five bytes raise.
verify_magic_string(magic_string) ==
    IF magic_string # MAGIC THEN "Exception:verify_magic_string" ELSE ""

\* verify_version: int() of the four bytes, then the range check.
verify_version(version_str) ==
    With(ParseInt(version_str), LAMBDA version :
    IF ~version.ok THEN "ValueError"
    ELSE IF version.n < 1 \/ version.n > 6 THEN "Exception:verify_version"
    ELSE "")

\* The header with start_rdb delivered before the version is verified.
parse_open_start_before_version(F, l) ==
    With(read(F, 1, 5), LAMBDA magic :
    IF verify_magic_string(magic.data) # ""
    THEN Failed([l EXCEPT !.pos = magic.pos], verify_magic_string(magic.data))
    ELSE
    With(read(F, magic.pos, 4), LAMBDA version :
    With([l EXCEPT !.pos = version.pos,
                   !.events = Append(@, Event("start_rdb", <<>>, InfoOmitted))],
         LAMBDA started :
    IF verify_version(version.data) # ""
    THEN Failed(started, verify_version(version.data))
    ELSE [started EXCEPT !.pc = "loop", !.is_first_database = TRUE,
                         !.db_number = 0])))

\* Lines 278-284: the header, start_rdb, and the loop's initial locals.
parse_open(F, l) ==
    With(read(F, 1, 5), LAMBDA magic :
    IF verify_magic_string(magic.data) # ""
    THEN Failed([l EXCEPT !.pos = magic.pos], verify_magic_string(magic.data))
    ELSE
    With(read(F, magic.pos, 4), LAMBDA version :
    IF verify_version(version.data) # ""
    THEN Failed([l EXCEPT !.pos = version.pos], verify_version(version.data))
    ELSE [l EXCEPT !.pc = "loop", !.pos = version.pos,
                   !.events = Append(@, Event("start_rdb", <<>>, InfoOmitted)),
                   !.is_first_database = TRUE, !.db_number = 0]))

\* Lines 290-303: an expiry opcode t, the time after it, and the type byte
\* after that.  reset is the per-key context after self._expiry = None.
parse_expiry(F, l, t, reset, e, expiry) ==
    IF e.err # "" THEN Failed([l EXCEPT !.pos = e.pos, !.cur = reset], e.err)
    ELSE
    With(read_unsigned_char(F, e.pos), LAMBDA t2 :
    IF t2.err # ""
    THEN Failed([l EXCEPT !.pos = t2.pos,
                          !.cur = [reset EXCEPT !.expiry = VInt(expiry),
                                        !.orig_expiry = VStr(t.raw \o e.raw)]],
                t2.err)
    ELSE [l EXCEPT !.pc = "dispatch", !.pos = t2.pos, !.data_type = t2.val,
                   !.cur = [reset EXCEPT !.expiry = VInt(expiry),
                                 !.orig_expiry = VStr(t.raw \o e.raw),
                                 !.orig_data_type = VStr(t2.raw)]])

\* The head of the loop without line 286, self._expiry = None.
parse_opcode_without_reset(F, l) ==
    With(read_unsigned_char(F, l.pos), LAMBDA t :
    IF t.err # "" THEN Failed([l EXCEPT !.pos = t.pos], t.err)
    ELSE IF t.val = REDIS_RDB_OPCODE_EXPIRETIME_MS THEN
        With(read_unsigned_long(F, t.pos), LAMBDA e :
        parse_expiry(F, l, t, l.cur, e, to_datetime(e.val * 1000)))
    ELSE IF t.val = REDIS_RDB_OPCODE_EXPIRETIME THEN
        With(read_unsigned_int(F, t.pos), LAMBDA e :
        parse_expiry(F, l, t, l.cur, e, to_datetime(e.val * 1000000)))
    ELSE [l EXCEPT !.pc = "dispatch", !.pos = t.pos, !.data_type = t.val,
                   !.cur = [@ EXCEPT !.orig_expiry = VNone,
                                     !.orig_data_type = VStr(t.raw)]])

\* Lines 286-303: the opcode byte, and an expiry with the byte after it.
parse_opcode(F, l) ==
    With([l.cur EXCEPT !.expiry = VNone], LAMBDA reset :
    With(read_unsigned_char(F, l.pos), LAMBDA t :
    IF t.err # "" THEN Failed([l EXCEPT !.pos = t.pos, !.cur = reset], t.err)
    ELSE IF t.val = REDIS_RDB_OPCODE_EXPIRETIME_MS THEN
        With(read_unsigned_long(F, t.pos), LAMBDA e :
        parse_expiry(F, l, t, reset, e, to_datetime(e.val * 1000)))
    ELSE IF t.val = REDIS_RDB_OPCODE_EXPIRETIME THEN
        With(read_unsigned_int(F, t.pos), LAMBDA e :
        parse_expiry(F, l, t, reset, e, to_datetime(e.val * 1000000)))
    ELSE [l EXCEPT !.pc = "dispatch", !.pos = t.pos, !.data_type = t.val,
                   !.cur = [reset EXCEPT !.orig_expiry = VNone,
                                 !.orig_data_type = VStr(t.raw)]]))

\* SELECT-DB without the end_database of lines 306-307.
parse_selectdb_without_end(F, l) ==
    With(read_length(F, l.pos), LAMBDA n :
    IF n.err # ""
    THEN Failed([l EXCEPT !.pos = n.pos, !.is_first_database = FALSE], n.err)
    ELSE [l EXCEPT !.pc = "loop", !.pos = n.pos, !.is_first_database = FALSE,
                   !.db_number = n.val,
                   !.events = Append(@,
                       Event("start_database", <<VInt(n.val)>>,
                             Bag("", 0 - 1, << <<"orig_db_number", VStr(n.raw)>> >>)))])

\* Lines 305-312: SELECT-DB.
parse_selectdb(F, l) ==
    With(IF ~l.is_first_database
         THEN Append(l.events,
                     Event("end_database", <<VInt(l.db_number)>>, InfoOmitted))
         ELSE l.events, LAMBDA ended :
    With(read_length(F, l.pos), LAMBDA n :
    IF n.err # ""
    THEN Failed([l EXCEPT !.pos = n.pos, !.events = ended,
                          !.is_first_database = FALSE], n.err)
    ELSE [l EXCEPT !.pc = "loop", !.pos = n.pos, !.is_first_database = FALSE,
                   !.db_number = n.val,
                   !.events = Append(ended,
                       Event("start_database", <<VInt(n.val)>>,
                             Bag("", 0 - 1, << <<"orig_db_number", VStr(n.raw)>> >>)))]))

\* EOF with end_database delivered only for a database that was started.
parse_eof_started_only(l) ==
    [l EXCEPT !.pc = "done",
              !.events = @ \o
                  (IF l.is_first_database THEN <<>>
                   ELSE <<Event("end_database", <<VInt(l.db_number)>>,
                                Bag("", 0 - 1,
                                    << <<"orig_end_db", l.cur.orig_data_type>> >>))>>)
                  \o <<Event("end_rdb", <<>>, InfoOmitted)>>]

\* Lines 314-318: EOF.
parse_eof(l) ==
    [l EXCEPT !.pc = "done",
              !.events = @ \o
                  <<Event("end_database", <<VInt(l.db_number)>>,
                          Bag("", 0 - 1, << <<"orig_end_db", l.cur.orig_data_type>> >>)),
                    Event("end_rdb", <<>>, InfoOmitted)>>]

\* Line 320: the db test alone.
db_matches(FL, l) == matches_filter(FL, l.db_number, VNone, FALSE, 0).ok

\* Line 321: the key is read with is_key = True.
parse_key(F, l) ==
    With(read_string(F, l.pos, TRUE, "undef"), LAMBDA k :
    IF k.err # "" THEN Failed([l EXCEPT !.pos = k.pos], k.err)
    ELSE [l EXCEPT !.pc = "key", !.pos = k.pos,
                   !.cur = [@ EXCEPT !.key = k.val, !.orig_key = VStr(k.raw)]])

\* Line 322: the test on db, key and type.
key_matches(FL, l) == matches_filter(FL, l.db_number, l.cur.key, TRUE, l.data_type)

\* Line 323.
parse_read_object(F, IG, l) ==
    With(read_object(F, l.pos, l.data_type, l.cur, IG), LAMBDA r :
    IF r.err # "" THEN Failed([l EXCEPT !.pos = r.pos, !.events = @ \o r.evs], r.err)
    ELSE [l EXCEPT !.pc = "loop", !.pos = r.pos, !.events = @ \o r.evs])

\* Line 325.
parse_skip_object(F, l) ==
    With(skip_object(F, l.pos, l.data_type), LAMBDA r :
    IF r.err # "" THEN Failed([l EXCEPT !.pos = r.pos], r.err)
    ELSE [l EXCEPT !.pc = "loop", !.pos = r.pos])

\* Line 327.
parse_skip_key_and_object(F, l) ==
    With(skip_key_and_object(F, l.pos, l.data_type), LAMBDA r :
    IF r.err # "" THEN Failed([l EXCEPT !.pos = r.pos], r.err)
    ELSE [l EXCEPT !.pc = "loop", !.pos = r.pos])

\* Which stretch of the loop runs next.
AtSelectDb(l) == l.pc = "dispatch" /\ l.data_type = REDIS_RDB_OPCODE_SELECTDB
AtEof(l) == l.pc = "dispatch" /\ l.data_type = REDIS_RDB_OPCODE_EOF
AtObject(l) ==
    /\ l.pc = "dispatch"
    /\ l.data_type \notin {REDIS_RDB_OPCODE_SELECTDB, REDIS_RDB_OPCODE_EOF}

\* One stretch of parse(): the next state of a parse that has not ended.
parse_step(F, FL, IG, l) ==
    IF l.pc = "ready" THEN parse_open(F, l)
    ELSE IF l.pc = "loop" THEN parse_opcode(F, l)
    ELSE IF AtSelectDb(l) THEN parse_selectdb(F, l)
    ELSE IF AtEof(l) THEN parse_eof(l)
    ELSE IF AtObject(l) THEN
        IF db_matches(FL, l) THEN parse_key(F, l)
        ELSE parse_skip_key_and_object(F, l)
    ELSE With(key_matches(FL, l), LAMBDA m :
         IF m.err # "" THEN Failed(l, m.err)
         ELSE IF m.ok THEN parse_read_object(F, IG, l)
         ELSE parse_skip_object(F, l))

RECURSIVE parse_from(_, _, _, _)
\* parse() run to its end: the final state of the parse.
parse_from(F, FL, IG, l) ==
    IF l.pc \in {"done", "failed"} THEN l
    ELSE parse_from(F, FL, IG, parse_step(F, FL, IG, l))

(***************************************************************************)
(* Inputs: the dump files and the constructor arguments the parser is run  *)
(* on.  A file is built from the byte layouts of the RDB format.  Files    *)
(* made only of the layouts marked well-formed, with one EOF opcode at the *)
(* end, are the well-formed files.                                         *)
(***************************************************************************)
MaxLen == 2      \* elements (or pairs) in a collection: 0..MaxLen
MaxDb == 1       \* database numbers: 0..MaxDb
MaxUnits == 3    \* top-level records before the EOF opcode of a sequence file

HEADER == MAGIC \o <<48, 48, 48, 54>>                   \* "REDIS0006"

\* A string with a 6-bit length prefix.
S6(bytes) == <<Len(bytes)>> \o bytes

RECURSIVE Rep(_, _)
Rep(bytes, n) == IF n = 0 THEN <<>> ELSE bytes \o Rep(bytes, n - 1)

U32(n) == <<n % 256, (n \div 256) % 256, 0, 0>>
U16(n) == <<n % 256, (n \div 256) % 256>>

KeyA == S6(<<97>>)
KeyB == S6(<<98>>)

\* "aaaa" as LZF: a literal run of one byte, then a back-reference of
\* length 1 + 2 at offset 1; with its compressed and uncompressed lengths.
LzfAAAA == <<195, 4, 4, 0, 97, 32, 0>>
\* The same stream with a declared uncompressed length of 5.
LzfBadLen == <<195, 4, 5, 0, 97, 32, 0>>

\* A ziplist arena of the given entries: zlbytes, tail offset, count,
\* the entries, and the terminator byte.
ZipList(entries, n, term) ==
    LET body == Cat(entries) IN
    U32(11 + Len(body)) \o U32(10) \o U16(n) \o body \o <<term>>

ZlEntry(bytes) == <<0>> \o S6(bytes)       \* prev_length, header, bytes
ZlInt(n) == <<0, 241 + n>>                 \* immediate integer 0..12

\* Payloads <<type opcode, bytes after the key, well-formed>>.
StringPayloads ==
    { <<0, S6(<<118>>), TRUE>>,                 \* "v"
      <<0, <<192, 42>>, TRUE>>,                 \* INT8 42
      <<0, <<193, 255, 255>>, TRUE>>,           \* INT16 -1
      <<0, <<194, 210, 4, 0, 128>>, TRUE>>,     \* INT32 -2147482414
      <<0, LzfAAAA, TRUE>>,
      <<0, LzfBadLen, FALSE>>,
      <<0, <<196>>, FALSE>>,                    \* discriminant 4
      <<0, <<5, 118>>, FALSE>>,                 \* five bytes declared, one there
      <<5, S6(<<118>>), FALSE>> }               \* no such object type

ListPayloads ==
    { <<1, <<n>> \o Rep(S6(<<120>>), n), TRUE>> : n \in 0..MaxLen }
    \cup { <<2, <<n>> \o Rep(S6(<<120 + n>>), n), TRUE>> : n \in 0..MaxLen }
    \cup { <<1, <<1>> \o LzfAAAA, TRUE>>,
           <<1, <<1>> \o LzfBadLen, FALSE>>,
           <<1, <<MaxLen + 1>> \o Rep(S6(<<120>>), MaxLen), FALSE>> }

ZsetPayloads ==
    { <<3, <<n>> \o Rep(S6(<<109>>) \o <<1, 49>>, n), TRUE>> : n \in 0..MaxLen }
    \cup { <<3, <<1>> \o S6(<<109>>) \o <<1, 120>>, FALSE>> }     \* score "x"

HashPayloads ==
    { <<4, <<n>> \o Rep(S6(<<102>>) \o S6(<<118>>), n), TRUE>> : n \in 0..MaxLen }
    \cup { <<4, <<1>> \o S6(<<102>>) \o LzfAAAA, TRUE>> }

\* zipmap: count, then (key length, key, value length, free, value), 255.
ZipmapPayloads ==
    { <<9, S6(<<n>> \o Rep(<<1, 102, 1, 0, 118>>, n) \o <<255>>), TRUE>>
        : n \in 0..MaxLen }
    \cup { <<9, S6(<<2>> \o <<1, 102, 1, 0, 55>> \o <<255>>), FALSE>>,  \* count 2, one pair
           <<9, S6(<<1>> \o <<1, 102, 1, 0, 118>>), FALSE>>,          \* no terminator
           <<9, <<192, 2>>, FALSE>> }                                \* INT8 payload

ZiplistPayloads ==
    { <<10, S6(ZipList(Rep(<<ZlEntry(<<120>>)>>, n), n, 255)), TRUE>>
        : n \in 0..MaxLen }
    \cup { <<10, S6(ZipList(<<ZlInt(7)>>, 1, 255)), TRUE>>,
           <<10, S6(ZipList(<<ZlEntry(<<120>>)>>, 1, 0)), FALSE>>,
           <<10, S6(ZipList(<<<<0, 255>>>>, 1, 255)), FALSE>>,       \* bad header
           <<10, <<192, 7>>, FALSE>> }

IntsetPayloads ==
    { <<11, S6(U32(2) \o U32(n) \o Rep(U16(513), n)), TRUE>> : n \in 0..MaxLen }
    \cup { <<11, S6(U32(4) \o U32(1) \o U32(7)), TRUE>>,
           <<11, S6(U32(3) \o U32(0)), FALSE>>,                       \* width 3
           <<11, S6(U32(3) \o U32(1) \o U16(513)), FALSE>>,
           <<11, S6(U32(2) \o U32(2) \o U16(513)), FALSE>>,          \* one entry short
           <<11, LzfBadLen, FALSE>> }

ZsetZiplistPayloads ==
    { <<12, S6(ZipList(Rep(<<ZlEntry(<<109>>), ZlInt(1)>>, n), 2 * n, 255)), TRUE>>
        : n \in 0..MaxLen }
    \cup { <<12, S6(ZipList(<<ZlEntry(<<109>>), ZlEntry(<<49>>)>>, 2, 255)), TRUE>>,
           <<12, S6(ZipList(<<ZlEntry(<<109>>)>>, 1, 255)), FALSE>> } \* odd count

HashZiplistPayloads ==
    { <<13, S6(ZipList(Rep(<<ZlEntry(<<102>>), ZlEntry(<<118>>)>>, n), 2 * n, 255)), TRUE>>
        : n \in 0..MaxLen }
    \cup { <<13, S6(ZipList(<<ZlEntry(<<102>>), ZlEntry(<<118>>)>>, 2, 0)), FALSE>>,
           <<13, S6(ZipList(<<>>, 0, 0)), FALSE>> }

Payloads ==
    StringPayloads \cup ListPayloads \cup ZsetPayloads \cup HashPayloads
    \cup ZipmapPayloads \cup ZiplistPayloads \cup IntsetPayloads
    \cup ZsetZiplistPayloads \cup HashZiplistPayloads

\* Objects [b: type opcode, key, payload; wf].  Every payload under the
\* keys "a" and "b"; a string under the other encodings of a key.
Objects ==
    { [b |-> <<p[1]>> \o k \o p[2], wf |-> p[3]] : k \in {KeyA, KeyB}, p \in Payloads }
    \cup { [b |-> <<0>> \o k \o S6(<<118>>), wf |-> TRUE]
             : k \in { <<0>>,                      \* the empty key
                       <<192, 0>>,                 \* INT8 0
                       <<192, 97>>,                \* INT8 97
                       LzfAAAA } }
    \cup { [b |-> <<0>> \o LzfBadLen \o S6(<<118>>), wf |-> FALSE] }

SelectDb(d) == <<254, d>>
ExpireSec == <<253, 2, 0, 0, 0>>                    \* 2 s
ExpireMs == <<252, 136, 19, 0, 0, 0, 0, 0, 0>>      \* 5000 ms

\* One object in one database, then EOF.
ObjectFiles ==
    { [b |-> HEADER \o SelectDb(d) \o o.b \o <<255>>, wf |-> o.wf]
        : d \in 0..MaxDb, o \in Objects }

\* The records of a sequence file.  An expiry is a record of its own, so
\* that it may precede an object, a SELECT-DB or the end of the file.
Units ==
    { SelectDb(d) : d \in 0..MaxDb }
    \cup { ExpireSec, ExpireMs,
           <<0>> \o KeyA \o S6(<<118>>),
           <<0>> \o KeyB \o <<192, 42>>,
           <<1>> \o KeyB \o <<1>> \o S6(<<120>>) }

IsExpire(u) == u \in {ExpireSec, ExpireMs}

RECURSIVE UnitSeqs(_)
UnitSeqs(n) ==
    IF n = 0 THEN { <<>> }
    ELSE LET shorter == UnitSeqs(n - 1) IN
         shorter \cup { Append(us, u) : us \in { s \in shorter : Len(s) = n - 1 },
                                         u \in Units }

\* In a well-formed sequence every expiry is followed by an object, and
\* every object comes after a SELECT-DB.
SeqWellFormed(us) ==
    \A i \in 1..Len(us) :
        /\ IsExpire(us[i]) => /\ i < Len(us)
                              /\ ~IsExpire(us[i + 1])
                              /\ us[i + 1][1] # 254
        /\ us[i][1] \notin {252, 253, 254} => \E j \in 1..(i - 1) : us[j][1] = 254

\* Sequence files: the records and then EOF, EOF and one more byte, or
\* nothing (a truncated file).
SequenceFiles ==
    { [b |-> HEADER \o Cat(us) \o <<255>>, wf |-> SeqWellFormed(us)]
        : us \in UnitSeqs(MaxUnits) }
    \cup { [b |-> HEADER \o Cat(us) \o t, wf |-> FALSE]
             : us \in UnitSeqs(MaxUnits - 1), t \in { <<>>, <<255, 0>> } }

\* Files whose header is refused.
BadHeaderFiles ==
    { [b |-> h \o <<255>>, wf |-> FALSE]
        : h \in { <<82, 69, 68, 73, 88, 48, 48, 48, 54>>,      \* "REDIX0006"
                  MAGIC \o <<48, 48, 48, 55>>,                  \* version 7
                  MAGIC \o <<48, 48, 48, 48>>,                  \* version 0
                  MAGIC \o <<48, 48, 120, 54>>,                 \* "00x6"
                  MAGIC } }

\* Files whose header is accepted at the ends of the version range: version
\* 1, and a file that stops after one digit of the version (read(4) returns
\* the digit alone, and int() of it is 6).
EdgeVersionFiles ==
    { [b |-> MAGIC \o <<48, 48, 48, 49, 255>>, wf |-> TRUE],
      [b |-> MAGIC \o <<54>>, wf |-> FALSE] }

AllFiles == ObjectFiles \cup SequenceFiles \cup BadHeaderFiles \cup EdgeVersionFiles
WellFormedFiles == { x.b : x \in { y \in AllFiles : y.wf } }

\* The filters argument of the constructor: None, or a dict holding the
\* axes named in has.
NoFilter == [none |-> TRUE, has |-> {}, dbs |-> AxNone, keys |-> AxNone,
             types |-> AxNone]
OnlyDbs(v) == [none |-> FALSE, has |-> {"dbs"}, dbs |-> v, keys |-> AxNone,
               types |-> AxNone]
OnlyKeys(v) == [none |-> FALSE, has |-> {"keys"}, dbs |-> AxNone, keys |-> v,
                types |-> AxNone]
OnlyTypes(v) == [none |-> FALSE, has |-> {"types"}, dbs |-> AxNone, keys |-> AxNone,
                 types |-> v]

FilterArgs ==
    { NoFilter,
      [none |-> FALSE, has |-> {}, dbs |-> AxNone, keys |-> AxNone, types |-> AxNone],
      OnlyDbs(AxNone), OnlyDbs(AxList({})), OnlyDbs(AxList({0})),
      OnlyDbs(AxList({MaxDb})), OnlyDbs(AxInt(0)),
      OnlyKeys(AxNone), OnlyKeys(AxStr(<<>>)), OnlyKeys(AxStr(<<97>>)),
      OnlyTypes(AxNone), OnlyTypes(AxList({})), OnlyTypes(AxList({"string", "list"})),
      OnlyTypes(AxName("hash")),
      [none |-> FALSE, has |-> {"dbs", "keys", "types"}, dbs |-> AxList({0}),
       keys |-> AxStr(<<97>>), types |-> AxList({"string", "set", "sortedset"})] }

\* The ignore argument of the constructor: None or a list of names.
NoIgnore == [none |-> TRUE, items |-> {}]
IgnoreArgs ==
    { NoIgnore } \cup
    { [none |-> FALSE, items |-> s] : s \in SUBSET {"real_value", "real_field"} }

\* The files a parser built with these arguments is run on: every file for
\* a parser without filters and ignore list, the one-object files for any
\* other parser, and the sequence files also under a keys filter and a dbs
\* filter.
FilesFor(fa, ia) ==
    IF fa = NoFilter /\ ia = NoIgnore THEN AllFiles
    ELSE IF ia = NoIgnore /\ fa \in {OnlyKeys(AxStr(<<97>>)), OnlyDbs(AxList({MaxDb}))}
         THEN ObjectFiles \cup SequenceFiles
    ELSE ObjectFiles

(***************************************************************************)
(* The state machine.  filters_arg and ignore_arg are the arguments of     *)
(* RdbParser(callback, filters, ignore); filters and ignore are what       *)
(* __init__ makes of them; f is the file given to parse(); the other       *)
(* variables are the fields of the parse record described above.  call is  *)
(* a call of one of the parser's functions on its own, outside a parse:    *)
(* the function, its arguments, and what it returned.                      *)
(***************************************************************************)
VARIABLES filters_arg, ignore_arg, filters, ignore, f,
          pc, err, pos, data_type, db_number, is_first_database, cur, events,
          call

vars == <<filters_arg, ignore_arg, filters, ignore, f,
          pc, err, pos, data_type, db_number, is_first_database, cur, events,
          call>>

\* No function is called on its own.
NoCall == [fn |-> "", args |-> <<>>, returned |-> FALSE, result |-> <<>>]

\* The parse record of the current state, and the next state from a record.
L == [pc |-> pc, err |-> err, pos |-> pos, data_type |-> data_type,
      db_number |-> db_number, is_first_database |-> is_first_database,
      cur |-> cur, events |-> events]

Becomes(l) ==
    /\ pc' = l.pc
    /\ err' = l.err
    /\ pos' = l.pos
    /\ data_type' = l.data_type
    /\ db_number' = l.db_number
    /\ is_first_database' = l.is_first_database
    /\ cur' = l.cur
    /\ events' = l.events

Unset == [err |-> "unset", dbs_none |-> TRUE, dbs |-> {}, keys |-> <<>>,
          types |-> {}]

Init ==
    /\ filters_arg \in FilterArgs
    /\ ignore_arg \in IgnoreArgs
    /\ filters_arg = NoFilter \/ ignore_arg = NoIgnore
    /\ filters = Unset
    /\ ignore = [real_value |-> "undef", real_field |-> "undef"]
    /\ f = <<>>
    /\ pc = "new"
    /\ err = ""
    /\ pos = 1
    /\ data_type = 0
    /\ db_number = 0
    /\ is_first_database = TRUE
    /\ cur = Cur0
    /\ events = <<>>
    /\ call = NoCall

\* RdbParser.__init__ (parser.py:263-271).
Construct ==
    /\ pc = "new"
    /\ LET r == init_filter(filters_arg) IN
       IF r.err # ""
       THEN /\ pc' = "ctor_failed"
            /\ err' = r.err
            /\ UNCHANGED <<filters, ignore>>
       ELSE /\ pc' = "ready"
            /\ err' = ""
            /\ filters' = r
            /\ ignore' = init_ignore(ignore_arg)
    /\ UNCHANGED <<filters_arg, ignore_arg, f, pos, data_type, db_number,
                   is_first_database, cur, events, call>>

\* What a parse leaves alone.
Config == <<filters_arg, ignore_arg, filters, ignore, call>>

\* parse(filename) up to the loop (parser.py:278-284).
Parse ==
    /\ pc = "ready"
    /\ \E x \in FilesFor(filters_arg, ignore_arg) :
          /\ f' = x.b
          /\ Becomes(parse_open(x.b, L))
    /\ UNCHANGED Config

\* The head of the loop (parser.py:286-303).
ReadOpcode ==
    /\ pc = "loop"
    /\ Becomes(parse_opcode(f, L))
    /\ UNCHANGED <<Config, f>>

\* parser.py:305-312.
SelectDatabase ==
    /\ AtSelectDb(L)
    /\ Becomes(parse_selectdb(f, L))
    /\ UNCHANGED <<Config, f>>

\* parser.py:314-318.
EndOfFile ==
    /\ AtEof(L)
    /\ Becomes(parse_eof(L))
    /\ UNCHANGED <<Config, f>>

\* parser.py:320-321.
ReadKey ==
    /\ AtObject(L)
    /\ db_matches(filters, L)
    /\ Becomes(parse_key(f, L))
    /\ UNCHANGED <<Config, f>>

\* parser.py:326-327.
SkipKeyAndObject ==
    /\ AtObject(L)
    /\ ~db_matches(filters, L)
    /\ Becomes(parse_skip_key_and_object(f, L))
    /\ UNCHANGED <<Config, f>>

\* parser.py:322: matches_filter raises on a type it has no name for.
MatchRaises ==
    /\ pc = "key"
    /\ key_matches(filters, L).err # ""
    /\ Becomes(Failed(L, key_matches(filters, L).err))
    /\ UNCHANGED <<Config, f>>

\* parser.py:322-323.
ReadObject ==
    /\ pc = "key"
    /\ key_matches(filters, L).err = ""
    /\ key_matches(filters, L).ok
    /\ Becomes(parse_read_object(f, ignore, L))
    /\ UNCHANGED <<Config, f>>

\* parser.py:324-325.
SkipObject ==
    /\ pc = "key"
    /\ key_matches(filters, L).err = ""
    /\ ~key_matches(filters, L).ok
    /\ Becomes(parse_skip_object(f, L))
    /\ UNCHANGED <<Config, f>>

Next ==
    \/ Construct
    \/ Parse
    \/ ReadOpcode
    \/ SelectDatabase
    \/ EndOfFile
    \/ ReadKey
    \/ SkipKeyAndObject
    \/ MatchRaises
    \/ ReadObject
    \/ SkipObject

Spec == Init /\ [][Next]_vars

(***************************************************************************)
(* lzf_decompress (parser.py:783-815) and read_length_with_encoding        *)
(* (parser.py:329-348) called on their own: the arguments of a call are    *)
(* drawn from bounded sets, and an action is the call.                     *)
(***************************************************************************)
MaxOps == 3         \* pieces in a compressed stream: 0..MaxOps
MaxExpected == 10   \* expected_length: 0..MaxExpected
MaxRest == 4        \* bytes after the first byte of a length prefix: 0..MaxRest

\* The pieces a compressed stream is made of: literal runs of one and two
\* bytes; back-references of length 1 at the offsets 1, 2 and 257 back; of
\* length 2; of length 7 + extra byte; and pieces that stop short.
LzfPieces ==
    { <<0, 97>>, <<1, 98, 99>>,
      <<32, 0>>, <<32, 1>>, <<33, 0>>, <<64, 0>>,
      <<224, 0, 0>>, <<224, 1, 1>>,
      <<0>>, <<32>>, <<224, 0>> }

RECURSIVE SeqsUpTo(_, _)
\* The sequences of at most n elements of S.
SeqsUpTo(S, n) ==
    IF n = 0 THEN { <<>> }
    ELSE LET shorter == SeqsUpTo(S, n - 1) IN
         shorter \cup { Append(q, x) : q \in { t \in shorter : Len(t) = n - 1 },
                                       x \in S }

\* The variables of a parser and its parse, and a parser that is not used.
ParserVars == <<filters_arg, ignore_arg, filters, ignore, f,
                pc, err, pos, data_type, db_number, is_first_database, cur, events>>

NoParse ==
    /\ filters_arg = NoFilter
    /\ ignore_arg = NoIgnore
    /\ filters = Unset
    /\ ignore = [real_value |-> "undef", real_field |-> "undef"]
    /\ f = <<>>
    /\ pc = "new"
    /\ err = ""
    /\ pos = 1
    /\ data_type = 0
    /\ db_number = 0
    /\ is_first_database = TRUE
    /\ cur = Cur0
    /\ events = <<>>

LzfCalls ==
    { [fn |-> "lzf_decompress", args |-> <<compressed, expected_length>>,
       returned |-> FALSE, result |-> <<>>]
         : compressed \in { Cat(q) : q \in SeqsUpTo(LzfPieces, MaxOps) },
           expected_length \in 0..MaxExpected }

\* A stream to read a length prefix from: any first byte, and after it up
\* to MaxRest bytes that tell the byte orders apart (a 32-bit length stays
\* below 2^31).
LengthCalls ==
    { [fn |-> "read_length_with_encoding", args |-> << <<first>> \o rest >>,
       returned |-> FALSE, result |-> <<>>]
         : first \in 0..255, rest \in SeqsUpTo({0, 1, 127}, MaxRest) }

InitCalls ==
    /\ NoParse
    /\ call \in LzfCalls \cup LengthCalls

\* val = self.lzf_decompress(compressed, expected_length)
LzfDecompress ==
    /\ call.fn = "lzf_decompress"
    /\ ~call.returned
    /\ call' = [call EXCEPT !.returned = TRUE,
                            !.result = lzf_decompress(call.args[1], call.args[2])]
    /\ UNCHANGED ParserVars

\* tup = self.read_length_with_encoding(f), f at its first byte.
ReadLengthWithEncoding ==
    /\ call.fn = "read_length_with_encoding"
    /\ ~call.returned
    /\ call' = [call EXCEPT !.returned = TRUE,
                            !.result = read_length_with_encoding(call.args[1], 1)]
    /\ UNCHANGED ParserVars

NextCalls == LzfDecompress \/ ReadLengthWithEncoding

SpecCalls == InitCalls /\ [][NextCalls]_vars

(***************************************************************************)
(* Properties of the calls delivered to the callback.                      *)
(***************************************************************************)
StartEvents == {"start_list", "start_set", "start_sorted_set", "start_hash"}
ElementEvents == {"rpush", "sadd", "zadd", "hset"}
EndEvents == {"end_list", "end_set", "end_sorted_set", "end_hash"}
ObjectEvents == {"set"} \cup StartEvents \cup ElementEvents \cup EndEvents

ElementOf(start) ==
    CASE start = "start_list" -> "rpush"
      [] start = "start_set" -> "sadd"
      [] start = "start_sorted_set" -> "zadd"
      [] OTHER -> "hset"

EndOf(start) ==
    CASE start = "start_list" -> "end_list"
      [] start = "start_set" -> "end_set"
      [] start = "start_sorted_set" -> "end_sorted_set"
      [] OTHER -> "end_hash"

\* The positions of the events of one name.
At(evs, name) == {i \in 1..Len(evs) : evs[i].ev = name}

\* The start event evs[i] = start_x(k, n) is followed by exactly n element
\* events of its kind on k and then by end_x(k).
CountLaw(evs, i) ==
    /\ i + evs[i].args[2].n + 1 <= Len(evs)
    /\ \A j \in 1..evs[i].args[2].n :
          /\ evs[i + j].ev = ElementOf(evs[i].ev)
          /\ evs[i + j].args[1] = evs[i].args[1]
    /\ evs[i + evs[i].args[2].n + 1].ev = EndOf(evs[i].ev)
    /\ evs[i + evs[i].args[2].n + 1].args = <<evs[i].args[1]>>

\* C1: in the event sequence of a successful parse every start_hash(k, n)
\* is followed by exactly n hset(k, ...) and then end_hash(k), and likewise
\* start_list with rpush, start_set with sadd and start_sorted_set with
\* zadd, in every encoding.
C1_EventCountLaws ==
    pc = "done" =>
        \A i \in 1..Len(events) : events[i].ev \in StartEvents => CountLaw(events, i)

\* The last start_database before position i (0 when there is none).
LastStartBefore(evs, i) ==
    IF \E j \in At(evs, "start_database") : j < i
    THEN CHOOSE j \in At(evs, "start_database") :
            /\ j < i
            /\ \A k \in At(evs, "start_database") : k < i => k <= j
    ELSE 0

\* On a start_database other than the first, the event just before it is
\* the end_database of the database started last.
EndThenStart(evs) ==
    \A i \in At(evs, "start_database") :
        LastStartBefore(evs, i) # 0 =>
            /\ evs[i - 1].ev = "end_database"
            /\ evs[i - 1].args = evs[LastStartBefore(evs, i)].args

\* Between a start_database and the next one there is exactly one
\* end_database.
OneEndBetween(evs) ==
    \A i \in At(evs, "start_database") :
        LastStartBefore(evs, i) # 0 =>
            Cardinality({k \in At(evs, "end_database") :
                            LastStartBefore(evs, i) < k /\ k < i}) = 1

\* The object event evs[i] comes after a start_database with no
\* end_database in between.
InsideDatabase(evs, i) ==
    /\ LastStartBefore(evs, i) # 0
    /\ \A k \in At(evs, "end_database") : ~(LastStartBefore(evs, i) < k /\ k < i)

\* While objects are read, the database started last is the one the parser
\* is in (db_number).
InCurrentDatabase ==
    (pc \in {"loop", "dispatch", "key"} /\ ~is_first_database) =>
        /\ LastStartBefore(events, Len(events) + 1) # 0
        /\ events[LastStartBefore(events, Len(events) + 1)].args = <<VInt(db_number)>>
        /\ \A k \in At(events, "end_database") :
              k < LastStartBefore(events, Len(events) + 1)

\* C2 as stated: in the event sequence of any parse databases never
\* overlap: on each SELECT-DB but the first, end_database(previous db) comes
\* immediately before start_database(new db), there is exactly one
\* end_database between two start_database events, and every object event
\* lies between the start_database of its db and the next end_database.
C2_EveryObjectInsideDatabase ==
    /\ EndThenStart(events)
    /\ OneEndBetween(events)
    /\ InCurrentDatabase
    /\ \A i \in 1..Len(events) :
          events[i].ev \in ObjectEvents => InsideDatabase(events, i)

\* C2 amended: as above, for the object events that come after a
\* start_database; the objects of a file that has no SELECT-DB before them
\* are delivered in the implicit database 0, which has no start_database.
C2_DatabasesNeverOverlap ==
    /\ EndThenStart(events)
    /\ OneEndBetween(events)
    /\ InCurrentDatabase
    /\ \A i \in 1..Len(events) :
          (events[i].ev \in ObjectEvents /\ LastStartBefore(events, i) # 0)
              => InsideDatabase(events, i)

\* A second database started after an object of the first, parsed to the
\* end.
C2_Witness ==
    /\ pc = "done"
    /\ \E i, j \in At(events, "start_database"), m \in At(events, "set") :
          i < m /\ m < j

\* C3: on the EOF opcode the driver delivers end_database for the current
\* db (db 0 when no SELECT-DB was seen), then end_rdb, then stops: end_rdb
\* is delivered at most once, it is the last event, and no byte after the
\* EOF opcode is read.
C3_EofEndsTheParse ==
    /\ Cardinality(At(events, "end_rdb")) <= 1
    /\ At(events, "end_rdb") # {} => pc = "done"
    /\ pc = "done" =>
          /\ Len(events) >= 2
          /\ events[Len(events)].ev = "end_rdb"
          /\ events[Len(events) - 1].ev = "end_database"
          /\ events[Len(events) - 1].args = <<VInt(db_number)>>
          /\ is_first_database => db_number = 0
          /\ data_type = REDIS_RDB_OPCODE_EOF
          /\ f[pos - 1] = REDIS_RDB_OPCODE_EOF
          /\ ~ENABLED Next

\* A dump with a byte after the EOF opcode, parsed to the end.
C3_Witness ==
    /\ pc = "done"
    /\ pos = Len(f)
    /\ At(events, "start_database") # {}

\* One step of a parse: no step follows the error, the events delivered
\* stay delivered, and the step that raises delivers neither end_rdb nor
\* the end event of an object.
AbortStep ==
    /\ pc # "failed"
    /\ IsPrefixOf(events, events')
    /\ pc' = "failed" =>
          /\ At(events', "end_rdb") = {}
          /\ \A i \in (Len(events) + 1)..Len(events') :
                events'[i].ev \notin EndEvents

\* C4: when a parse aborts with an error no end_rdb is delivered, no event
\* is delivered after the error, the object in progress gets no
\* end_list/end_set/end_sorted_set/end_hash, and the events delivered before
\* the error remain delivered.
C4_AbortDeliversNoEnd == [][AbortStep]_vars

\* A parse that failed inside a collection, after one of its elements.
C4_Witness ==
    /\ pc = "failed"
    /\ events # <<>>
    /\ events[Len(events)].ev \in ElementEvents

\* The logical type of the object an event belongs to.
TypeOfEvent(name) ==
    CASE name = "set" -> "string"
      [] name \in {"start_list", "rpush", "end_list"} -> "list"
      [] name \in {"start_set", "sadd", "end_set"} -> "set"
      [] name \in {"start_sorted_set", "zadd", "end_sorted_set"} -> "sortedset"
      [] OTHER -> "hash"

\* An axis of the filters argument that asks for nothing: the axis is
\* missing, None or empty.
AxisOpen(fa, axis) ==
    \/ fa.none
    \/ axis \notin fa.has
    \/ fa[axis].t = "none"
    \/ fa[axis].t = "list" /\ fa[axis].items = {}
    \/ fa[axis].t = "str" /\ fa[axis].s = <<>> /\ fa[axis].name = ""

\* What the filters argument asks for: (db, key, type) is inside the
\* filter when every axis that is not open admits it.
InFilter(fa, db, key, type) ==
    /\ \/ AxisOpen(fa, "dbs")
       \/ fa.dbs.t = "int" /\ db = fa.dbs.n
       \/ fa.dbs.t = "list" /\ db \in fa.dbs.items
    /\ \/ AxisOpen(fa, "keys")
       \/ IsPrefixOf(fa.keys.s, PyStr(key))
    /\ \/ AxisOpen(fa, "types")
       \/ fa.types.t = "str" /\ type = fa.types.name
       \/ fa.types.t = "list" /\ type \in fa.types.items

RECURSIVE Discard(_, _, _)
\* The events of evs without the object events whose (db, key, type) is
\* outside the filter; db is the database of the last start_database.
Discard(evs, db, fa) ==
    IF evs = <<>> THEN <<>>
    ELSE IF Head(evs).ev = "start_database"
    THEN <<Head(evs)>> \o Discard(Tail(evs), Head(evs).args[1].n, fa)
    ELSE IF /\ Head(evs).ev \in ObjectEvents
            /\ ~InFilter(fa, db, Head(evs).args[1], TypeOfEvent(Head(evs).ev))
    THEN Discard(Tail(evs), db, fa)
    ELSE <<Head(evs)>> \o Discard(Tail(evs), db, fa)

\* The events of the parse of F by a parser built without filters.
Unfiltered(F) == parse_from(F, init_filter(NoFilter), ignore, L0).events

\* C5: for every well-formed file and every filter, the parse with the
\* filter delivers exactly the events of the parse without filter from which
\* the events outside the filter are discarded.
C5_FilterEquivalence ==
    (pc \in {"done", "failed"} /\ f \in WellFormedFiles) =>
        events = Discard(Unfiltered(f), 0, filters_arg)

ObjectTypes == {REDIS_RDB_TYPE_STRING, REDIS_RDB_TYPE_LIST, REDIS_RDB_TYPE_SET,
                REDIS_RDB_TYPE_ZSET, REDIS_RDB_TYPE_HASH, REDIS_RDB_TYPE_HASH_ZIPMAP,
                REDIS_RDB_TYPE_LIST_ZIPLIST, REDIS_RDB_TYPE_SET_INTSET,
                REDIS_RDB_TYPE_ZSET_ZIPLIST, REDIS_RDB_TYPE_HASH_ZIPLIST}

\* The three paths of the driver from the state l, in which the type opcode
\* of an object has been read.
PathRead(l) == parse_read_object(f, ignore, parse_key(f, l))
PathSkipObject(l) == parse_skip_object(f, parse_key(f, l))
PathSkipKeyAndObject(l) == parse_skip_key_and_object(f, l)

\* C6: for every object type and every well-formed key and payload the
\* three paths - read key then read_object, read key then skip_object,
\* skip_key_and_object - end without error at the same position of the file.
C6_ThreePathsAgree ==
    (AtObject(L) /\ data_type \in ObjectTypes /\ f \in WellFormedFiles) =>
        /\ PathRead(L).pc = "loop"
        /\ PathSkipObject(L).pc = "loop"
        /\ PathSkipKeyAndObject(L).pc = "loop"
        /\ PathSkipObject(L).pos = PathRead(L).pos
        /\ PathSkipKeyAndObject(L).pos = PathRead(L).pos

\* The raw spans of an info bag in the order of the bytes in the file.
SpanOrder ==
    <<"orig_expiry", "orig_data_type", "orig_key", "orig_length",
      "orig_db_number", "orig_raw_string", "orig_val", "orig_field",
      "orig_value", "orig_dbl_length", "orig_score", "orig_end_db">>

RECURSIVE SpansNamed(_, _)
\* The bytes of the spans of one name (a span that is None holds no bytes).
SpansNamed(spans, name) ==
    IF spans = <<>> THEN <<>>
    ELSE (IF Head(spans)[1] = name THEN Head(spans)[2].b ELSE <<>>)
         \o SpansNamed(Tail(spans), name)

\* The bytes an event accounts for: its spans, and the SELECT-DB opcode
\* before the span of a start_database.
EventBytes(e) ==
    (IF e.ev = "start_database" THEN <<REDIS_RDB_OPCODE_SELECTDB>> ELSE <<>>)
    \o Cat([k \in 1..Len(SpanOrder) |-> SpansNamed(e.info.spans, SpanOrder[k])])

\* Magic and version, then the bytes of the events in the order delivered.
Rebuild(F, evs) ==
    SubSeq(F, 1, Len(HEADER)) \o Cat([i \in 1..Len(evs) |-> EventBytes(evs[i])])

\* C7: for every well-formed file parsed without filters, the raw spans of
\* the info bags of all events, concatenated in event order with the framing
\* bytes, are the file byte for byte: no byte is missing, none is there twice.
C7_RawSpanFidelity ==
    (pc \in {"done", "failed"} /\ filters_arg = NoFilter /\ f \in WellFormedFiles) =>
        Rebuild(f, events) = f

\* The expiry the file holds at the top-level position p: the time and the
\* raw bytes of an expire opcode at p, None when another opcode is at p.
ExpiryAt(F, p) ==
    IF F[p] = REDIS_RDB_OPCODE_EXPIRETIME_MS
    THEN [expiry |-> VInt(LE(SubSeq(F, p + 1, p + 8)) \div 1000),
          orig_expiry |-> VStr(SubSeq(F, p, p + 8))]
    ELSE IF F[p] = REDIS_RDB_OPCODE_EXPIRETIME
    THEN [expiry |-> VInt(LE(SubSeq(F, p + 1, p + 4))),
          orig_expiry |-> VStr(SubSeq(F, p, p + 4))]
    ELSE [expiry |-> VNone, orig_expiry |-> VNone]

\* The value of the span of one name in an info bag.
SpanOf(info, name) ==
    info.spans[CHOOSE k \in 1..Len(info.spans) : info.spans[k][1] = name][2]

\* One step of a parse: the opcode read at the top of the loop decides the
\* expiry of the object that follows, reading the key leaves it alone, and
\* the object is reported with it.
ExpiryStep ==
    /\ (pc = "loop" /\ pc' = "dispatch") =>
          /\ cur'.expiry = ExpiryAt(f, pos).expiry
          /\ cur'.orig_expiry = ExpiryAt(f, pos).orig_expiry
    /\ (pc = "dispatch" /\ pc' = "key") =>
          /\ cur'.expiry = cur.expiry
          /\ cur'.orig_expiry = cur.orig_expiry
    /\ pc = "key" =>
          \A i \in (Len(events) + 1)..Len(events') :
              events'[i].ev \in {"set"} \cup StartEvents =>
                  /\ events'[i].args[3] = cur.expiry
                  /\ \E k \in 1..Len(events'[i].info.spans) :
                        events'[i].info.spans[k][1] = "orig_expiry"
                  /\ SpanOf(events'[i].info, "orig_expiry") = cur.orig_expiry

\* C8: the expiry and orig_expiry reported for an object are those of an
\* expire opcode right before the object's type opcode, and None when there
\* is none: an expiry read before an earlier key, or one followed by a
\* SELECT-DB or EOF, is never reported for a later key.
C8_ExpiryScoping == [][ExpiryStep]_vars

\* An object with an expiry, and after it an object reported without one.
C8_Witness ==
    /\ pc = "done"
    /\ \E i, j \in At(events, "set") :
          /\ i < j
          /\ events[i].args[3] # VNone
          /\ events[j].args[3] = VNone

InfoEvents == {"start_database", "end_database", "set"} \cup ElementEvents

\* C9: every start_database, end_database, set, rpush, sadd, zadd and hset
\* event is delivered with an info bag holding the raw spans that produced
\* it; the info argument is never omitted and never None.
C9_EveryEventHasInfo ==
    \A i \in 1..Len(events) :
        events[i].ev \in InfoEvents =>
            /\ events[i].info.kind = "bag"
            /\ events[i].info.spans # <<>>

\* C10: an axis of the filter that is missing, None or empty lets the
\* parser be constructed without error and excludes no key: matches_filter
\* returns True for every key that the other axes admit.
C10_OpenAxisExcludesNothing ==
    /\ pc # "ctor_failed"
    /\ (AtObject(L) /\ InFilter(filters_arg, db_number, VNone, ""))
          => db_matches(filters, L)
    /\ (/\ pc = "key"
        /\ data_type \in ObjectTypes
        /\ InFilter(filters_arg, db_number, cur.key, get_logical_type(data_type)))
          => key_matches(filters, L).ok

\* The bytes a to b of F, as far as the file goes.
Bytes(F, a, b) == SubSeq(F, a, Min(b, Len(F)))

\* The number a version field spells: its digits read as a decimal number,
\* and -1 when it is empty or holds anything but digits.
DecimalVersion(text) ==
    IF text # <<>> /\ \A i \in 1..Len(text) : text[i] \in 48..57
    THEN DecOf(text) ELSE 0 - 1

\* The header of F is the literal "REDIS" and a version in [1, 6].
HeaderAccepted(F) ==
    /\ Bytes(F, 1, 5) = <<82, 69, 68, 73, 83>>
    /\ DecimalVersion(Bytes(F, 6, 9)) \in 1..6

ZiplistTypes == {REDIS_RDB_TYPE_LIST_ZIPLIST, REDIS_RDB_TYPE_ZSET_ZIPLIST,
                 REDIS_RDB_TYPE_HASH_ZIPLIST}

\* The end event of an object type.
EndEventOf(type) ==
    CASE get_logical_type(type) = "list" -> "end_list"
      [] get_logical_type(type) = "set" -> "end_set"
      [] get_logical_type(type) = "sortedset" -> "end_sorted_set"
      [] OTHER -> "end_hash"

RECURSIVE EntriesEnd(_, _, _)
\* The position in the arena after count entries from bpos (0 when one of
\* them does not decode).
EntriesEnd(buff, bpos, count) ==
    IF count = 0 THEN bpos
    ELSE With(read_ziplist_entry(buff, bpos), LAMBDA e :
         IF e.err # "" THEN 0 ELSE EntriesEnd(buff, e.pos, count - 1))

\* The arena of the ziplist object at the file cursor of l.
ArenaOf(l) == read_string(f, l.pos, TRUE, "undef")

\* The position in the arena of the byte after the declared entries: 0 when
\* the arena is no string, its header is short, a hash or sorted set
\* declares an odd number of entries, an entry does not decode, or the arena
\* ends with the entries.
TerminatorAt(l) ==
    With(ArenaOf(l), LAMBDA s :
    IF s.err # "" \/ s.val.t # "str" THEN 0
    ELSE With(ziplist_header(s.val.b), LAMBDA h :
         IF h.err # "" THEN 0
         ELSE IF l.data_type # REDIS_RDB_TYPE_LIST_ZIPLIST /\ h.val % 2 # 0 THEN 0
         ELSE With(EntriesEnd(s.val.b, h.pos, h.val), LAMBDA p :
              IF p > Len(s.val.b) THEN 0 ELSE p)))

\* What decoding the object does when the byte after the entries is 0xFF
\* (the end event is delivered, the parse goes on) and when it is not (the
\* parse fails without the end event).
TerminatorChecked(l, r) ==
    IF ArenaOf(l).val.b[TerminatorAt(l)] = 255
    THEN /\ r.pc = "loop"
         /\ Len(r.events) > Len(l.events)
         /\ r.events[Len(r.events)].ev = EndEventOf(l.data_type)
    ELSE /\ r.pc = "failed"
         /\ \A i \in (Len(l.events) + 1)..Len(r.events) :
               r.events[i].ev \notin EndEvents

\* C12: for every list, sorted set and hash in a ziplist whose declared
\* entries decode, the parser checks the byte after them: on 0xFF it
\* delivers end_list / end_sorted_set / end_hash, on any other value the
\* parse fails without that event, whatever the ignore flags.
C12_TerminatorChecked ==
    (/\ pc = "key"
     /\ data_type \in ZiplistTypes
     /\ key_matches(filters, L).err = ""
     /\ key_matches(filters, L).ok
     /\ TerminatorAt(L) # 0)
        => TerminatorChecked(L, parse_read_object(f, ignore, L))

\* The first byte of a string stored as an integer: the discriminants INT8,
\* INT16 and INT32 under the tag 11.
IntPrefixes == {192 + REDIS_RDB_ENC_INT8, 192 + REDIS_RDB_ENC_INT16,
                192 + REDIS_RDB_ENC_INT32}

\* C13: the value of a string stored as INT8, INT16 or INT32, as set
\* delivers it, is the decimal text of the signed little-endian integer:
\* the bytes C0 2A give the string "42", not the number 42.
C13_IntStringsAreDecimalText ==
    \A i \in At(events, "set") :
        With(SpanOf(events[i].info, "orig_val").b, LAMBDA raw :
            raw[1] \in IntPrefixes =>
                events[i].args[2] = VStr(StrOfInt(SLE(Tail(raw)))))

\* What a flag is to be after construction: true exactly when its name is
\* in the ignore argument.
FlagFor(name) ==
    IF ~ignore_arg.none /\ name \in ignore_arg.items THEN "true" ELSE "false"

\* The hset events of a hash in a ziplist: the ones delivered with None for
\* info.
ZiplistHsets == {i \in At(events, "hset") : events[i].info = InfoNone}

\* C14: once the parser is constructed each ignore flag is defined, and is
\* true if and only if its name is in the ignore argument (false for None,
\* for an empty argument and for one without the name); and a parser whose
\* ignore argument lacks 'real_field' delivers the fields of a hash in a
\* ziplist.
C14_IgnoreFlagsFollowArgument ==
    pc \notin {"new", "ctor_failed"} =>
        /\ ignore.real_value = FlagFor("real_value")
        /\ ignore.real_field = FlagFor("real_field")
        /\ FlagFor("real_field") = "false" =>
              \A i \in ZiplistHsets : events[i].args[2] # VNone

\* The file position of the first string of the object whose type opcode
\* and key have been read: the payload itself for a string and for an
\* arena, the first element after the count for a collection (0 when the
\* collection is empty or its count cannot be read).
FirstStringAt(l) ==
    IF l.data_type \in {REDIS_RDB_TYPE_LIST, REDIS_RDB_TYPE_SET,
                        REDIS_RDB_TYPE_ZSET, REDIS_RDB_TYPE_HASH}
    THEN With(read_length(f, l.pos), LAMBDA n :
         IF n.err # "" \/ n.val = 0 THEN 0 ELSE n.pos)
    ELSE l.pos

\* The objects whose payload is read the way a key is: the arenas of intsets
\* and ziplists.
ReadAsKey == {REDIS_RDB_TYPE_LIST_ZIPLIST, REDIS_RDB_TYPE_SET_INTSET,
              REDIS_RDB_TYPE_ZSET_ZIPLIST, REDIS_RDB_TYPE_HASH_ZIPLIST}

\* At position p of the file there is an LZF string whose stream
\* decompresses, to a length other than the declared ulen.
BadLzfAt(p) ==
    /\ p \in 1..Len(f)
    /\ f[p] = 192 + REDIS_RDB_ENC_LZF
    /\ With(read_length(f, p + 1), LAMBDA clen :
       With(read_length(f, clen.pos), LAMBDA ulen :
       With(lzf_loop(read(f, ulen.pos, clen.val).data, 0, <<>>), LAMBDA d :
          /\ clen.err = ""
          /\ ulen.err = ""
          /\ d.err = ""
          /\ Len(d.out) # ulen.val)))

\* A key whose decompressed length is not the declared one fails the parse
\* with the error of lzf_decompress.
BadLzfKeyFails ==
    (AtObject(L) /\ db_matches(filters, L) /\ BadLzfAt(pos))
        => parse_key(f, L).err = "Exception:lzf_decompress"

\* The object about to be decoded starts with such a string.
BadLzfInObject ==
    /\ pc = "key"
    /\ data_type \in ObjectTypes
    /\ key_matches(filters, L).err = ""
    /\ key_matches(filters, L).ok
    /\ BadLzfAt(FirstStringAt(L))

\* C15 as stated: an LZF string read for a decoded key or object whose
\* decompressed length differs from the declared ulen fails the parse with
\* the corrupt-LZF error, for keys and values alike and for every setting
\* of the ignore flags.
C15_BadLzfLengthAlwaysFails ==
    /\ BadLzfKeyFails
    /\ BadLzfInObject
          => parse_read_object(f, ignore, L).err = "Exception:lzf_decompress"

\* C15 amended: the same for the strings the decoder decompresses: a key,
\* an arena read as a key is, and a value or element read while
\* _ignore_real_value is False.
C15_BadLzfLengthFailsWhenDecompressed ==
    /\ BadLzfKeyFails
    /\ (BadLzfInObject /\ (data_type \in ReadAsKey \/ ignore.real_value = "false"))
          => parse_read_object(f, ignore, L).err = "Exception:lzf_decompress"

\* A parse that failed on the LZF value of a string object, the key read and
\* _ignore_real_value False.
C15_Witness ==
    /\ pc = "failed"
    /\ err = "Exception:lzf_decompress"
    /\ data_type = REDIS_RDB_TYPE_STRING
    /\ cur.key # VNone
    /\ ignore.real_value = "false"

\* The header of the intset at the file cursor of l, when the arena is a
\* string that holds the two header words: the width and the entry count.
IntsetHeader(l) ==
    With(ArenaOf(l), LAMBDA s :
    IF s.err # "" \/ s.val.t # "str" \/ Len(s.val.b) < 8
    THEN [ok |-> FALSE, width |-> 0, count |-> 0]
    ELSE [ok |-> TRUE, width |-> LE(SubSeq(s.val.b, 1, 4)),
          count |-> LE(SubSeq(s.val.b, 5, 8))])

\* An intset is about to be decoded whose header names a width that is not
\* 2, 4 or 8.
IntsetOfBadWidth ==
    /\ pc = "key"
    /\ data_type = REDIS_RDB_TYPE_SET_INTSET
    /\ key_matches(filters, L).err = ""
    /\ key_matches(filters, L).ok
    /\ IntsetHeader(L).ok
    /\ IntsetHeader(L).width \notin {2, 4, 8}

\* C16: decoding an intset whose header width is not 2, 4 or 8 aborts the
\* parse with an error, for every entry count, 0 included.
C16_BadIntsetWidthAborts ==
    IntsetOfBadWidth => parse_read_object(f, ignore, L).pc = "failed"

RECURSIVE CopyRun(_, _, _)
\* n bytes appended to out one at a time, each read from the growing output
\* at offset (counted from 0), then offset + 1, and so on.
CopyRun(out, offset, n) ==
    IF n = 0 THEN out
    ELSE CopyRun(Append(out, out[offset + 1]), offset + 1, n - 1)

RECURSIVE Scan(_, _, _)
\* The output built by scanning the input control byte by control byte, i
\* bytes of it being consumed.  ok is FALSE when the input ends inside a run
\* or a back-reference, and when an offset points before the start of the
\* output (before is TRUE then).
Scan(in, i, out) ==
    IF i = Len(in) THEN [ok |-> TRUE, out |-> out, before |-> FALSE]
    ELSE LET c == in[i + 1]
             long == (c \div 32 = 7)
             last == IF long THEN i + 3 ELSE i + 2
          IN IF c < 32
             THEN IF i + c + 2 > Len(in)
                  THEN [ok |-> FALSE, out |-> out, before |-> FALSE]
                  ELSE Scan(in, i + c + 2, out \o SubSeq(in, i + 2, i + c + 2))
             ELSE IF last > Len(in) THEN [ok |-> FALSE, out |-> out, before |-> FALSE]
             ELSE LET length == (c \div 32) + (IF long THEN in[i + 2] ELSE 0)
                      offset == Len(out) - ((c % 32) * 256) - in[last] - 1
                  IN IF offset < 0 THEN [ok |-> FALSE, out |-> out, before |-> TRUE]
                     ELSE Scan(in, last, CopyRun(out, offset, length + 2))

\* C17: lzf_decompress(compressed, expected_length) returns exactly the bytes
\* built by scanning the input control byte by control byte: c < 32 appends
\* the next c + 1 input bytes; otherwise length is c >> 5 (plus one more
\* input byte when that is 7), the offset is out_len - ((c & 0x1F) << 8) -
\* next_byte - 1, and length + 2 bytes are copied one at a time from that
\* offset of the growing output, so that a run overlapping its destination
\* repeats the bytes just written.
C17_LzfDecompressScans ==
    (call.fn = "lzf_decompress" /\ call.returned) =>
        LET s == Scan(call.args[1], 0, <<>>) IN
        s.ok => /\ call.result.err = "" => call.result.val = VStr(s.out)
                /\ Len(s.out) = call.args[2] => call.result.err = ""

\* "a", then a run of three bytes copied from offset 0 of an output of one
\* byte, returned as "aaaa".
C17_Witness ==
    /\ call.fn = "lzf_decompress"
    /\ call.returned
    /\ call.args = << <<0, 97, 32, 0>>, 4 >>
    /\ call.result = [err |-> "", val |-> VStr(<<97, 97, 97, 97>>)]

\* What a length prefix at the start of stream is to decode to: by the top
\* two bits of the first byte, the length, the encoded flag, and the number
\* of bytes consumed.
PrefixOf(stream) ==
    LET byte0 == stream[1]
        tag == byte0 \div 64
    IN CASE tag = 0 -> [length |-> byte0 % 64, is_encoded |-> FALSE, used |-> 1]
         [] tag = 1 -> [length |-> IF Len(stream) < 2 THEN 0
                                   ELSE (byte0 % 64) * 256 + stream[2],
                        is_encoded |-> FALSE, used |-> 2]
         [] tag = 2 -> [length |-> IF Len(stream) < 5 THEN 0
                                   ELSE stream[2] * 16777216 + stream[3] * 65536
                                        + stream[4] * 256 + stream[5],
                        is_encoded |-> FALSE, used |-> 5]
         [] OTHER -> [length |-> byte0 % 64, is_encoded |-> TRUE, used |-> 1]

\* C18: read_length_with_encoding decodes tag 00 to (low 6 bits, not
\* encoded, 1 byte), tag 01 to (((byte0 & 0x3F) << 8) | byte1, not encoded,
\* 2 bytes), tag 10 to (the next 4 bytes as a big-endian u32, not encoded, 5
\* bytes) and tag 11 to (low 6 bits, encoded, 1 byte); the raw bytes returned
\* are the bytes consumed, and decoding them again gives the same length and
\* the same flag.
C18_LengthPrefixDecoding ==
    (/\ call.fn = "read_length_with_encoding"
     /\ call.returned
     /\ Len(call.args[1]) >= PrefixOf(call.args[1]).used)
        => LET p == PrefixOf(call.args[1])
               again == read_length_with_encoding(call.result.raw, 1)
           IN /\ call.result.err = ""
              /\ call.result.length = p.length
              /\ call.result.is_encoded = p.is_encoded
              /\ call.result.raw = SubSeq(call.args[1], 1, p.used)
              /\ call.result.pos = p.used + 1
              /\ again.err = ""
              /\ again.length = call.result.length
              /\ again.is_encoded = call.result.is_encoded

\* A 32-bit length: the bytes 80 00 00 01 00 decoded to 256.
C18_Witness ==
    /\ call.fn = "read_length_with_encoding"
    /\ call.returned
    /\ call.args[1] = <<128, 0, 0, 1, 0>>
    /\ call.result.length = 256
    /\ call.result.raw = <<128, 0, 0, 1, 0>>

\* The value of entry number k (from 1) of a ziplist arena, None when the
\* entries up to it do not decode.
EntryOf(buff, k) ==
    LET at == EntriesEnd(buff, 11, k - 1) IN
    IF at = 0 \/ read_ziplist_entry(buff, at).err # "" THEN VNone
    ELSE read_ziplist_entry(buff, at).val

\* C19: whatever the ignore flags, a value that the i-th hset of a hash in
\* a ziplist delivers is decoded from the second entry of the i-th (field,
\* value) pair of the arena, never from a field entry: leaving the field
\* undecoded does not shift the place the value is read from.
C19_HashValueFromValueEntry ==
    (/\ pc = "key"
     /\ data_type = REDIS_RDB_TYPE_HASH_ZIPLIST
     /\ key_matches(filters, L).err = ""
     /\ key_matches(filters, L).ok
     /\ ArenaOf(L).err = ""
     /\ ArenaOf(L).val.t = "str")
        => LET r == parse_read_object(f, ignore, L) IN
           \A k \in (Len(events) + 1)..Len(r.events) :
               (r.events[k].ev = "hset" /\ r.events[k].args[3] # VNone) =>
                   r.events[k].args[3] =
                       EntryOf(ArenaOf(L).val.b, 2 * (k - Len(events) - 1))

\* C20: a back-reference of lzf_decompress reads only positions of the
\* output written so far: a stream with an offset that points before the
\* start of the output is never decompressed into a returned value.
C20_BackReferencesStayInside ==
    (/\ call.fn = "lzf_decompress"
     /\ call.returned
     /\ Scan(call.args[1], 0, <<>>).before)
        => call.result.err # ""

=============================================================================
